---- MODULE Spec2Model ----
(***************************************************************************)
(* A model of the social-media monitor: the mirror fetcher and the search  *)
(* aggregator (nitterSearch), the monitor engine and its persisted state   *)
(* (worker: loadState, processMonitor, runMonitors) and the scheduler      *)
(* (worker: run) together with the relationship-check job (vipTracker).    *)
(*                                                                         *)
(* The specifications of the module, among them:                           *)
(*   SpecFetch   - one call of fetchHtmlWithFallback, one request per step *)
(*   SpecSearch  - one call of searchNitterGlobal, one page per step       *)
(*   Spec        - the worker process: run(), its timer and its jobs       *)
(*   SpecCycle   - the worker with every cycle over before the next tick   *)
(*   SpecChain   - one cycle with its searches and their fetches           *)
(*   SpecExtract - extractTweetsFromHtml on bounded documents              *)
(*   SpecLegacy  - the earlier worker with its seen lists per monitor      *)
(*   SpecTracker - successive relationship checks of vipTracker            *)
(***************************************************************************)
EXTENDS Integers, Sequences, FiniteSets, TLC

VARIABLES
    fetch,      \* the activation record of fetchHtmlWithFallback
    search,     \* the activation record of searchNitterGlobal
    env,            \* process.env: which settings are present
    file,           \* the content of .state.json
    tasks,          \* the runs of the timer callback (0: the run at start)
    clock,          \* Date.now(), in poll intervals
    lastVipCheck,   \* run(): let lastVipCheck
    alive,          \* FALSE once process.exit was called
    delivered,      \* per post, the 'new' alerts the sink accepted (counted to 2)
    migration,      \* a parsed state file and what loadState's migration makes of it
    alert,          \* the alert of one record: its enrichment and its post to the sink
    extraction,     \* a document and the records extractTweetsFromHtml makes of it
    legacy,         \* the earlier worker: its seen lists and the cycle it runs
    vips            \* the relationship tracker: its state file and the check it runs

wvars ==
    <<env, file, tasks, clock, lastVipCheck, alive, delivered, migration, alert,
      extraction, legacy, vips>>

vars ==
    <<fetch, search, env, file, tasks, clock, lastVipCheck, alive, delivered, migration, alert,
      extraction, legacy, vips>>

\* ------------------------------------------------------------------ bounds
MaxMirrors == 3     \* longest raw mirror list handed to fetch
MaxRetries == 2     \* largest retriesPerInstance

\* ------------------------------------------------------------- helpers
Range(s) == {s[i] : i \in 1..Len(s)}

RECURSIVE SeqsUpTo(_, _)
SeqsUpTo(S, n) ==
    IF n = 0 THEN {<<>>}
    ELSE LET shorter == SeqsUpTo(S, n - 1)
         IN  shorter \cup {Append(s, x) : s \in {q \in shorter : Len(q) = n - 1}, x \in S}

\* The worker's variables in the specifications of a single call.
WorkerUnused ==
    /\ env = [pc |-> "unused"]
    /\ file = [pc |-> "unused"]
    /\ tasks = <<>>
    /\ clock = 0
    /\ lastVipCheck = 0
    /\ alive = FALSE
    /\ delivered = <<>>
    /\ migration = [pc |-> "unused"]
    /\ alert = [pc |-> "unused"]
    /\ extraction = [pc |-> "unused"]
    /\ legacy = [pc |-> "unused"]
    /\ vips = [pc |-> "unused"]

\* ===================================================================
\* Mirror fetcher: fetchHtmlWithFallback
\* ===================================================================

\* A string is a sequence of characters; the characters that matter to
\* cleanInstances are the blank and the slash.
RECURSIVE TrimLeft(_)
TrimLeft(s) == IF s # <<>> /\ Head(s) = " " THEN TrimLeft(Tail(s)) ELSE s

RECURSIVE TrimRight(_)
TrimRight(s) ==
    IF s # <<>> /\ s[Len(s)] = " " THEN TrimRight(SubSeq(s, 1, Len(s) - 1)) ELSE s

Trim(s) == TrimRight(TrimLeft(s))

RECURSIVE StripTrailingSlashes(_)
StripTrailingSlashes(s) ==
    IF s # <<>> /\ s[Len(s)] = "/" THEN StripTrailingSlashes(SubSeq(s, 1, Len(s) - 1))
    ELSE s

RECURSIVE DropEmpty(_)
DropEmpty(s) ==
    IF s = <<>> THEN <<>>
    ELSE IF Head(s) = <<>> THEN DropEmpty(Tail(s))
    ELSE <<Head(s)>> \o DropEmpty(Tail(s))

\* instances.map(trim).filter(Boolean).map(strip trailing slashes)
cleanInstances(instances) ==
    LET trimmed == [i \in 1..Len(instances) |-> Trim(instances[i])]
        kept    == DropEmpty(trimmed)
    IN  [i \in 1..Len(kept) |-> StripTrailingSlashes(kept[i])]

\* The raw mirror strings a configuration may hold.
RawInstances == { <<"a">>, <<" ", "b", "/">>, <<"c", "/", "/">>, <<" ">> }

RawInstanceLists == SeqsUpTo(RawInstances, MaxMirrors)

RetryCounts == (0 - 1)..MaxRetries

\* What one HTTP GET can come back with: the transport throws (network
\* error, abort on timeout), or a response with a status and a body.
MIN_HTML_LENGTH == 100
BACKOFF_MS == 250

BodyLengths == {0, MIN_HTML_LENGTH - 1, MIN_HTML_LENGTH, 50 * MIN_HTML_LENGTH}

Responses ==
    {[throws |-> TRUE, ok |-> FALSE, len |-> 0, challenge |-> FALSE]}
    \cup {r \in [throws : {FALSE}, ok : BOOLEAN, len : BodyLengths, challenge : BOOLEAN] :
            r.challenge => r.len > 0}

\* The try block without the test for the access-challenge marker.
AttemptErrorNoChallengeTest(resp) ==
    IF resp.throws THEN "transport"
    ELSE IF ~resp.ok THEN "http"
    ELSE IF resp.len = 0 \/ resp.len < MIN_HTML_LENGTH THEN "small"
    ELSE "none"

\* The body of the try block: the error the attempt throws, "none" when it
\* reaches the return.
AttemptError(resp) ==
    IF resp.throws THEN "transport"
    ELSE IF ~resp.ok THEN "http"
    ELSE IF resp.len = 0 \/ resp.len < MIN_HTML_LENGTH THEN "small"
    ELSE IF resp.challenge THEN "challenge"
    ELSE "none"

NoResult == [html |-> [len |-> 0, challenge |-> FALSE, ok |-> FALSE], instanceUsed |-> <<>>]
NoError == [kind |-> "none", last |-> "none"]

\* Entry into the loops without the emptiness check of lines 221-225.
EnterLoopsNoCheck(f, instances) ==
    IF Len(instances) = 0 \/ 0 > f.retriesPerInstance
    THEN [f EXCEPT !.pc = "threw", !.instances = instances,
                   !.error = [kind |-> "exhausted", last |-> "undefined"]]
    ELSE [f EXCEPT !.pc = "request", !.instances = instances, !.base = 1, !.attempt = 0,
                   !.sent = [i \in 1..Len(instances) |-> 0]]

\* The state of the two nested loops when the call has cleaned its list:
\* the first request to send, or the throw when there is none to send.
EnterLoops(f, instances) ==
    IF Len(instances) = 0
    THEN [f EXCEPT !.pc = "threw", !.instances = instances,
                   !.error = [kind |-> "config", last |-> "none"]]
    ELSE IF 0 > f.retriesPerInstance
    THEN [f EXCEPT !.pc = "threw", !.instances = instances,
                   !.error = [kind |-> "exhausted", last |-> "undefined"]]
    ELSE [f EXCEPT !.pc = "request", !.instances = instances, !.base = 1, !.attempt = 0,
                   !.sent = [i \in 1..Len(instances) |-> 0]]

\* return { html, instanceUsed: base, finalUrl }
OnSuccessContinue(f, resp) ==
    IF f.base < Len(f.instances)
    THEN [f EXCEPT !.base = f.base + 1, !.attempt = 0]
    ELSE [f EXCEPT !.pc = "returned",
                   !.result = [html |-> [len |-> resp.len, challenge |-> resp.challenge,
                                         ok |-> resp.ok],
                               instanceUsed |-> f.instances[f.base]]]

OnSuccess(f, resp) ==
    [f EXCEPT !.pc = "returned",
              !.result = [html |-> [len |-> resp.len, challenge |-> resp.challenge,
                                    ok |-> resp.ok],
                          instanceUsed |-> f.instances[f.base]]]

\* catch (err): lastError = err; back off and retry, or move to the next
\* mirror, or leave both loops and throw.
OnFailureRetryOnceMore(f, err) ==
    LET g == [f EXCEPT !.lastError = err] IN
    IF f.attempt <= f.retriesPerInstance
    THEN [g EXCEPT !.attempt = f.attempt + 1, !.slept = BACKOFF_MS * (f.attempt + 1)]
    ELSE IF f.base < Len(f.instances)
    THEN [g EXCEPT !.base = f.base + 1, !.attempt = 0, !.slept = 0]
    ELSE [g EXCEPT !.pc = "threw", !.slept = 0,
                   !.error = [kind |-> "exhausted", last |-> err]]

\* The catch block with a wait of the same length after every failed attempt.
OnFailureFlatBackoff(f, err) ==
    LET g == [f EXCEPT !.lastError = err] IN
    IF f.attempt < f.retriesPerInstance
    THEN [g EXCEPT !.attempt = f.attempt + 1, !.slept = BACKOFF_MS]
    ELSE IF f.base < Len(f.instances)
    THEN [g EXCEPT !.base = f.base + 1, !.attempt = 0, !.slept = 0]
    ELSE [g EXCEPT !.pc = "threw", !.slept = 0,
                   !.error = [kind |-> "exhausted", last |-> g.lastError]]

OnFailure(f, err) ==
    LET g == [f EXCEPT !.lastError = err] IN
    IF f.attempt < f.retriesPerInstance
    THEN [g EXCEPT !.attempt = f.attempt + 1, !.slept = BACKOFF_MS * (f.attempt + 1)]
    ELSE IF f.base < Len(f.instances)
    THEN [g EXCEPT !.base = f.base + 1, !.attempt = 0, !.slept = 0]
    ELSE [g EXCEPT !.pc = "threw", !.slept = 0,
                   !.error = [kind |-> "exhausted", last |-> g.lastError]]

FetchInit ==
    /\ search = [pc |-> "unused"]
    /\ WorkerUnused
    /\ fetch \in
         {[pc |-> "called", raw |-> raw, retriesPerInstance |-> n, instances |-> <<>>,
           base |-> 0, attempt |-> 0, lastError |-> "undefined", slept |-> 0,
           sent |-> <<>>, okAt |-> {}, failedAt |-> {}, lastTried |-> <<0, 0>>,
           lastTriedError |-> "none",
           result |-> NoResult, error |-> NoError] :
            raw \in RawInstanceLists, n \in RetryCounts}

\* const instances = cleanInstances(opts.instances); the emptiness check;
\* entry into the loops.
FetchCall ==
    /\ fetch.pc = "called"
    /\ fetch' = EnterLoops(fetch, cleanInstances(fetch.raw))

\* One iteration of the inner loop: the GET of mirror `base`, attempt
\* `attempt`, and what the try/catch does with its outcome.  sent, okAt,
\* failedAt, lastTried and lastTriedError record the requests made.
FetchAttempt(resp) ==
    /\ fetch.pc = "request"
    /\ LET err  == AttemptError(resp)
           here == <<fetch.base, fetch.attempt>>
           seen == [fetch EXCEPT !.sent[fetch.base] = @ + 1,
                                 !.lastTried = here,
                                 !.lastTriedError = err,
                                 !.okAt = IF err = "none" THEN @ \cup {here} ELSE @,
                                 !.failedAt = IF err = "none" THEN @ ELSE @ \cup {here}]
       IN  fetch' = IF err = "none" THEN OnSuccess(seen, resp) ELSE OnFailure(seen, err)

FetchNext ==
    \/ FetchCall /\ UNCHANGED <<search, wvars>>
    \/ \E resp \in Responses : FetchAttempt(resp) /\ UNCHANGED <<search, wvars>>

\* --------------------------------------------------- claims on the fetcher

\* C7: fetch tries the mirrors strictly in list order and returns on the
\* first attempt that yields a plausible document: a request is sent to a
\* list entry only after every earlier entry has failed all its attempts, no
\* request follows a successful attempt, and the reported instanceUsed is
\* the entry of the one successful attempt, every entry after it having
\* received no request.
C7_FirstPlausibleMirrorWins ==
    /\ \A j \in DOMAIN fetch.sent :
          fetch.sent[j] > 0 =>
             \A i \in 1..(j - 1) :
                 /\ fetch.sent[i] = fetch.retriesPerInstance + 1
                 /\ \A a \in 0..fetch.retriesPerInstance : <<i, a>> \in fetch.failedAt
    /\ fetch.okAt # {} => fetch.pc = "returned"
    /\ fetch.pc = "returned" =>
          /\ fetch.okAt = {<<fetch.base, fetch.attempt>>}
          /\ fetch.result.instanceUsed = fetch.instances[fetch.base]
          /\ fetch.sent[fetch.base] = fetch.attempt + 1
          /\ \A j \in DOMAIN fetch.sent : j > fetch.base => fetch.sent[j] = 0
          /\ \A p \in fetch.failedAt :
                p[1] < fetch.base \/ (p[1] = fetch.base /\ p[2] < fetch.attempt)

\* The spec's example: three mirrors, the first fails every retry, the
\* second succeeds on its first attempt.
C7_Witness ==
    /\ fetch.pc = "returned"
    /\ Len(fetch.instances) = 3
    /\ fetch.retriesPerInstance >= 1
    /\ fetch.sent[1] = fetch.retriesPerInstance + 1
    /\ fetch.okAt = {<<2, 0>>}
    /\ fetch.result.instanceUsed = fetch.instances[2]
    /\ fetch.sent[3] = 0

FetchExhausted == fetch.pc = "threw" /\ fetch.error.kind = "exhausted"

EveryAttemptMadeAndFailed ==
    /\ Len(fetch.instances) > 0
    /\ DOMAIN fetch.sent = 1..Len(fetch.instances)
    /\ \A j \in DOMAIN fetch.sent :
          /\ fetch.sent[j] = fetch.retriesPerInstance + 1
          /\ \A a \in 0..fetch.retriesPerInstance : <<j, a>> \in fetch.failedAt
    /\ fetch.okAt = {}

\* C8: with retriesPerInstance >= 0, fetch fails with FetchExhausted exactly
\* when every list entry has been attempted retriesPerInstance + 1 times and
\* all those attempts failed; no entry ever receives more attempts than
\* that; the error raised carries the error of the last attempt made.
C8_ExhaustedExactlyWhenAllFailed ==
    fetch.retriesPerInstance >= 0 =>
       /\ FetchExhausted <=> EveryAttemptMadeAndFailed
       /\ \A j \in DOMAIN fetch.sent : fetch.sent[j] <= fetch.retriesPerInstance + 1
       /\ FetchExhausted =>
             /\ fetch.lastTried = <<Len(fetch.instances), fetch.retriesPerInstance>>
             /\ fetch.error.last = fetch.lastTriedError

C8_Witness ==
    /\ FetchExhausted
    /\ Len(fetch.instances) >= 2
    /\ fetch.retriesPerInstance >= 1
    /\ fetch.error.last = "challenge"

\* ===================================================================
\* Search aggregator: searchNitterGlobal
\* ===================================================================
MaxSearchId == 3    \* post identifiers a source page may carry: 1..MaxSearchId
MaxPageLen == 2     \* most posts on one page
MaxLimit == 3       \* largest limit passed to search
MAX_PAGES == 10

SearchIds == 1..MaxSearchId

\* A page as extractTweetsFromHtml and extractShowMorePath see it: the
\* identifiers of its posts in document order and its show-more path.
NoPath == "undefined"
FirstPath == "/search?f=tweets&q="
MorePaths == {"/search?cursor=1", "/search?cursor=2"}

Pages == [tweets : SeqsUpTo(SearchIds, MaxPageLen), more : MorePaths \cup {NoPath},
          instanceUsed : {"a", "b"}]

Contains(results, id) == \E i \in 1..Len(results) : results[i] = id

\* for (const t of pageTweets) { if (results.length >= limit) break;
\*   if (results.some(r => r.id === t.id)) continue; results.push(t); }
RECURSIVE AppendPageNoDedupe(_, _, _)
AppendPageNoDedupe(results, pageTweets, limit) ==
    IF pageTweets = <<>> \/ Len(results) >= limit THEN results
    ELSE AppendPageNoDedupe(Append(results, Head(pageTweets)), Tail(pageTweets), limit)

RECURSIVE AppendPageNoLimit(_, _, _)
AppendPageNoLimit(results, pageTweets, limit) ==
    IF pageTweets = <<>> THEN results
    ELSE IF Contains(results, Head(pageTweets))
    THEN AppendPageNoLimit(results, Tail(pageTweets), limit)
    ELSE AppendPageNoLimit(Append(results, Head(pageTweets)), Tail(pageTweets), limit)

RECURSIVE AppendPage(_, _, _)
AppendPage(results, pageTweets, limit) ==
    IF pageTweets = <<>> \/ Len(results) >= limit THEN results
    ELSE IF Contains(results, Head(pageTweets))
    THEN AppendPage(results, Tail(pageTweets), limit)
    ELSE AppendPage(Append(results, Head(pageTweets)), Tail(pageTweets), limit)

NoSearchError == [count |-> 0 - 1, msg |-> "none"]

\* The loop condition  page < 10 && nextPath && results.length < limit  and,
\* when it is false, the return after the loop.
LoopOrReturnNoCeiling(s) ==
    IF s.nextPath # NoPath /\ Len(s.results) < s.limit
    THEN [s EXCEPT !.pc = "fetching"]
    ELSE [s EXCEPT !.pc = "returned",
                   !.response = [results |-> s.results, error |-> NoSearchError,
                                 instanceUsed |-> s.instanceUsedForLastFetch]]

LoopOrReturn(s) ==
    IF s.page < MAX_PAGES /\ s.nextPath # NoPath /\ Len(s.results) < s.limit
    THEN [s EXCEPT !.pc = "fetching"]
    ELSE [s EXCEPT !.pc = "returned",
                   !.response = [results |-> s.results, error |-> NoSearchError,
                                 instanceUsed |-> s.instanceUsedForLastFetch]]

\* catch (err): the response with the accumulator and the error string
\* `Failed after fetching ${results.length} results: ${errorMsg}`.
OnFetchErrorRethrow(s, msg) == [s EXCEPT !.pc = "raised"]

OnFetchErrorDiscard(s, msg) ==
    [s EXCEPT !.pc = "returned",
              !.response = [results |-> <<>>,
                            error |-> [count |-> 0, msg |-> msg],
                            instanceUsed |-> s.instanceUsedForLastFetch]]

OnFetchError(s, msg) ==
    [s EXCEPT !.pc = "returned",
              !.response = [results |-> s.results,
                            error |-> [count |-> Len(s.results), msg |-> msg],
                            instanceUsed |-> s.instanceUsedForLastFetch]]

\* The loop body after a page has been fetched.
OnPage(s, pg) ==
    LET results == AppendPage(s.results, pg.tweets, s.limit)
    IN  LoopOrReturn([s EXCEPT !.results = results,
                               !.instanceUsedForLastFetch = pg.instanceUsed,
                               !.nextPath = IF Len(results) < s.limit THEN pg.more ELSE NoPath,
                               !.page = s.page + 1])

\* The identifiers in the order the source first showed them.
RECURSIVE FirstSeen(_, _)
FirstSeen(seen, tweets) ==
    IF tweets = <<>> THEN seen
    ELSE FirstSeen(IF Contains(seen, Head(tweets)) THEN seen ELSE Append(seen, Head(tweets)),
                   Tail(tweets))

Repeated(seen, tweets) ==
    {id \in SearchIds :
        \/ Contains(seen, id) /\ Contains(tweets, id)
        \/ \E i, j \in 1..Len(tweets) : i # j /\ tweets[i] = id /\ tweets[j] = id}

SearchInit ==
    /\ fetch = [pc |-> "unused"]
    /\ WorkerUnused
    /\ search \in
       {[pc |-> "called", limit |-> l, instancesEmpty |-> e, results |-> <<>>,
         nextPath |-> FirstPath, page |-> 0, instanceUsedForLastFetch |-> "",
         response |-> [results |-> <<>>, error |-> NoSearchError, instanceUsed |-> ""],
         fetched |-> 0, failedFetches |-> 0, firstSeen |-> <<>>, repeated |-> {},
         lastMore |-> NoPath] :
          l \in 0..MaxLimit, e \in BOOLEAN}

\* Entry: results = [], nextPath = firstPath, then the first loop test.
SearchCall ==
    /\ search.pc = "called"
    /\ search' = LoopOrReturn(search)

\* await fetchHtmlWithFallback(nextPath, opts) returns a page: the rest of
\* the loop body runs, then the loop test.  fetched, firstSeen, repeated and
\* lastMore record what the source has shown.
SearchPage(pg) ==
    /\ search.pc = "fetching"
    /\ ~search.instancesEmpty
    /\ search' = OnPage([search EXCEPT !.fetched = @ + 1,
                                       !.firstSeen = FirstSeen(@, pg.tweets),
                                       !.repeated = @ \cup Repeated(search.firstSeen, pg.tweets),
                                       !.lastMore = pg.more],
                        pg)

\* await fetchHtmlWithFallback(nextPath, opts) throws: every mirror failed,
\* or there is no mirror at all.
SearchFetchFails(msg) ==
    /\ search.pc = "fetching"
    /\ msg = IF search.instancesEmpty THEN "config" ELSE "exhausted"
    /\ search' = OnFetchError([search EXCEPT !.fetched = @ + 1, !.failedFetches = @ + 1], msg)

SearchNext ==
    \/ SearchCall /\ UNCHANGED <<fetch, wvars>>
    \/ \E pg \in Pages : SearchPage(pg) /\ UNCHANGED <<fetch, wvars>>
    \/ \E msg \in {"config", "exhausted"} : SearchFetchFails(msg) /\ UNCHANGED <<fetch, wvars>>

SpecFetch == FetchInit /\ [][FetchNext]_vars

SpecSearch == SearchInit /\ [][SearchNext]_vars

\* Every awaited fetch resolves or rejects: each attempt is aborted after
\* timeoutMs and the attempts are finitely many.
SpecSearchFair == SearchInit /\ [][SearchNext]_vars /\ WF_vars(SearchNext)

Min(a, b) == IF a < b THEN a ELSE b

NoDuplicates(results) ==
    \A i, j \in 1..Len(results) : results[i] = results[j] => i = j

\* C9: search never raises; when a fetch fails, on the first page or a later
\* one, it returns the records accumulated from the pages fetched before the
\* failure - the source's identifiers in first-shown order, up to the limit -
\* and an error string that states their number.
C9_FetchFailureReturnsPartial ==
    /\ search.pc # "raised"
    /\ search.failedFetches > 0 =>
          /\ search.pc = "returned"
          /\ search.response.results =
                SubSeq(search.firstSeen, 1, Min(search.limit, Len(search.firstSeen)))
          /\ search.response.error # NoSearchError
          /\ search.response.error.count = Len(search.response.results)

\* A fetch failed after earlier pages had given records.
C9_Witness ==
    /\ search.pc = "returned"
    /\ search.failedFetches > 0
    /\ search.fetched >= 3
    /\ Len(search.response.results) = 2
    /\ search.response.error.count = 2

\* C10: the result sequence holds no identifier twice; an identifier shown
\* on several pages, or several times on one page, stands once, at the
\* position of its first discovery.
C10_NoDuplicateIdentifiers ==
    /\ NoDuplicates(search.results)
    /\ search.results = SubSeq(search.firstSeen, 1, Len(search.results))
    /\ search.pc = "returned" /\ search.failedFetches = 0 =>
          /\ NoDuplicates(search.response.results)
          /\ search.response.results = search.results
          /\ Len(search.results) = Min(search.limit, Len(search.firstSeen))

\* An identifier came on two pages and the result holds it, with others.
C10_Witness ==
    /\ search.pc = "returned"
    /\ search.failedFetches = 0
    /\ search.fetched >= 2
    /\ \E id \in search.repeated : Contains(search.response.results, id)
    /\ Len(search.response.results) >= 2

\* C11: search never returns more than limit records, and no page is
\* requested once the accumulator holds limit records.
C11_LimitBoundsResultAndFetches ==
    /\ Len(search.results) <= search.limit
    /\ Len(search.response.results) <= search.limit
    /\ search.pc = "fetching" => Len(search.results) < search.limit
    /\ (search.pc = "returned" /\ search.failedFetches = 0
            /\ Len(search.firstSeen) >= search.limit) =>
          Len(search.response.results) = search.limit

\* Limit 3, two pages of two records with one identifier on both: three
\* records, two fetches, though the second page offers a continuation.
C11_Witness ==
    /\ search.pc = "returned"
    /\ search.limit = 3
    /\ search.fetched = 2
    /\ search.failedFetches = 0
    /\ Len(search.firstSeen) = 3
    /\ search.repeated # {}
    /\ search.lastMore # NoPath
    /\ Len(search.response.results) = 3
    /\ NoDuplicates(search.response.results)

\* C12: search ends after at most 10 page fetches, even when every page
\* offers a continuation, one that was fetched before included, and adds no
\* new record; when it ends without error and with fewer than limit records,
\* the last page had no continuation or 10 pages were fetched.
C12_PageCeilingEndsSearch ==
    /\ [](/\ search.fetched <= MAX_PAGES
          /\ search.pc # "raised"
          /\ (search.pc = "returned" /\ search.failedFetches = 0
                  /\ Len(search.response.results) < search.limit) =>
                \/ search.fetched >= 1 /\ search.lastMore = NoPath
                \/ search.fetched = MAX_PAGES)
    /\ <>(search.pc = "returned")

\* Ten pages fetched, every one with a continuation, no record beyond the
\* first: the search returns what it has.  The paths being fewer than the
\* fetches, some continuation led to a path that had been fetched before.
C12_Witness ==
    /\ search.pc = "returned"
    /\ search.failedFetches = 0
    /\ search.fetched = MAX_PAGES
    /\ search.lastMore # NoPath
    /\ Cardinality(MorePaths \cup {FirstPath}) < search.fetched
    /\ Len(search.response.results) = 1
    /\ search.limit = 3

\* ===================================================================
\* Monitor state store: loadState, saveState
\* ===================================================================
MaxId == 2          \* post identifiers the searches of a cycle may return
MaxResults == 2     \* most records in one search result
MaxTicks == 2       \* timer ticks after the run at start
StartTime == 4      \* Date.now() when the process starts
VipIntervalTicks == 2   \* vipCheckIntervalSeconds, in poll intervals

\* Times are counted in timer periods, and the age ceiling of three days is
\* scaled to three of them.
THREE_DAYS_MS == 3
TRACTION_THRESHOLD_LIKES == 5
MIN_LIKES_GAIN == 5

PostIds == <<"p1", "p2", "p3", "p4">>
Ids == {PostIds[i] : i \in 1..MaxId}

NoCount == 0 - 1    \* an engagement counter that is undefined
NoTime == 0 - 1     \* createdAt undefined

Monitors == <<"default", "links", "traction_replies">>

EmptyMap == [id \in {} |-> 0]

Stats(likes, retweets, replies, lastChecked) ==
    [likes |-> likes, retweets |-> retweets, replies |-> replies, lastChecked |-> lastChecked]

Put(map, id, stats) == [x \in DOMAIN map \cup {id} |-> IF x = id THEN stats ELSE map[x]]

\* newState.seenTweets[id] = { likes: 0, retweets: 0, replies: 0, lastChecked: Date.now() }
\* for every id of every list of json.lastIds.
RECURSIVE MigrateLastIds(_, _, _)
MigrateLastIds(lists, now, acc) ==
    IF lists = <<>> THEN acc
    ELSE MigrateLastIds(Tail(lists), now,
            [x \in DOMAIN acc \cup Range(Head(lists).ids) |->
                IF x \in Range(Head(lists).ids) THEN Stats(0, 0, 0, now) ELSE acc[x]])

\* newState.seenTweets[tweetId] = tweets[tweetId], monitor key after monitor key.
RECURSIVE FlattenNested(_, _)
FlattenNested(nested, acc) ==
    IF nested = <<>> THEN acc
    ELSE FlattenNested(Tail(nested),
            [x \in DOMAIN acc \cup DOMAIN Head(nested).tweets |->
                IF x \in DOMAIN Head(nested).tweets THEN Head(nested).tweets[x] ELSE acc[x]])

AbsentFile == [shape |-> "absent", seenTweets |-> EmptyMap, lastIds |-> <<>>, nested |-> <<>>]
FlatFile(map) == [shape |-> "flat", seenTweets |-> map, lastIds |-> <<>>, nested |-> <<>>]

\* The state files the worker and its earlier versions leave behind.
StateFiles ==
    { AbsentFile,
      FlatFile([id \in {"p1"} |-> Stats(1, 0, 0, 0)]),
      [shape |-> "lastIds", seenTweets |-> EmptyMap,
       lastIds |-> <<[key |-> "default", ids |-> <<"p1">>]>>, nested |-> <<>>],
      [shape |-> "nested", seenTweets |-> EmptyMap, lastIds |-> <<>>,
       nested |-> <<[key |-> "default", tweets |-> [id \in {"p1"} |-> Stats(1, 0, 0, 0)]]>>] }

\* A state file that neither the worker nor an earlier version wrote:
\*   "unparseable"  text that JSON.parse rejects
\*   "null"         the JSON text null
\*   "noMap"        JSON without the entries map: {}, [], 5, {"seenTweets": null}
\*   "scalarMap"    an entries map that is a number or a boolean: {"seenTweets": 5}
CorruptShapes == {"unparseable", "null", "noMap", "scalarMap"}

CorruptFile(shape) ==
    [shape |-> shape, seenTweets |-> EmptyMap, lastIds |-> <<>>, nested |-> <<>>]

\* loadState(): what state.seenTweets of the returned MonitorState is: a
\* "map", "undefined" or a "scalar".  JSON.parse throwing and json.lastIds
\* throwing on null are caught; any other value is returned as it was
\* parsed.  ("raised" stands for loadState throwing.)
LoadedKindAbsentRaises(f) ==
    CASE f.shape = "absent" -> "raised"
      [] f.shape = "noMap" -> "undefined"
      [] f.shape = "scalarMap" -> "scalar"
      [] OTHER -> "map"

LoadedKind(f) ==
    CASE f.shape = "noMap" -> "undefined"
      [] f.shape = "scalarMap" -> "scalar"
      [] OTHER -> "map"

\* loadState(): the seenTweets map of the MonitorState it returns.
loadState(f, now) ==
    CASE f.shape = "absent" -> EmptyMap
      [] f.shape = "lastIds" -> MigrateLastIds(f.lastIds, now, EmptyMap)
      [] f.shape = "nested" -> FlattenNested(f.nested, EmptyMap)
      [] OTHER -> f.seenTweets

\* writeFileSync(stateFile, JSON.stringify(state))
saveState(map) == FlatFile(map)

\* ===================================================================
\* loadState's migration on the parsed file
\* ===================================================================
\* A JSON object is the sequence of its properties in insertion order, which
\* is the order of Object.keys, Object.entries and for...in.  A value of the
\* seenTweets object is a TweetStats (likesIn: it has the property 'likes')
\* or a per-monitor object of TweetStats.
MaxProps == 2       \* most properties of one JSON object of a state file
MaxListLen == 2     \* most identifiers in one list of lastIds

NoStats == Stats(NoCount, NoCount, NoCount, NoTime)
JStats(stats) == [likesIn |-> TRUE, stats |-> stats, tweets |-> <<>>]
JNested(tweets) == [likesIn |-> FALSE, stats |-> NoStats, tweets |-> tweets]

DistinctKeys(obj) == \A i, j \in 1..Len(obj) : obj[i].key = obj[j].key => i = j

KeysOf(obj) == {obj[i].key : i \in 1..Len(obj)}

RECURSIVE ObjectsUpTo(_, _, _)
ObjectsUpTo(keys, values, n) ==
    IF n = 0 THEN {<<>>}
    ELSE LET shorter == ObjectsUpTo(keys, values, n - 1)
         IN  shorter \cup
             UNION {{Append(obj, [key |-> k, val |-> v]) : k \in keys \ KeysOf(obj), v \in values} :
                      obj \in {o \in shorter : Len(o) = n - 1}}

ObjectsOver(keys, values) == ObjectsUpTo(keys, values, MaxProps)

\* obj[key] = val
SetProp(obj, key, val) ==
    IF \E i \in 1..Len(obj) : obj[i].key = key
    THEN [i \in 1..Len(obj) |-> IF obj[i].key = key THEN [key |-> key, val |-> val] ELSE obj[i]]
    ELSE Append(obj, [key |-> key, val |-> val])

RECURSIVE SetAll(_, _)
SetAll(obj, props) ==
    IF props = <<>> THEN obj
    ELSE SetAll(SetProp(obj, Head(props).key, Head(props).val), Tail(props))

StoredStats == {Stats(1, 0, 0, 1), Stats(8, 2, 1, 2)}
MonitorKeys == {"default", "links"}

Json(lastIdsIn, lastIds, seenTweets) ==
    [lastIdsIn |-> lastIdsIn, lastIds |-> lastIds, seenTweets |-> seenTweets]

FlatJsons == {Json(FALSE, <<>>, obj) : obj \in ObjectsOver(Ids, {JStats(st) : st \in StoredStats})}

NestedJsons ==
    {Json(FALSE, <<>>, obj) :
        obj \in ObjectsOver(MonitorKeys,
                    {JNested(tw) : tw \in ObjectsOver(Ids, {JStats(st) : st \in StoredStats})})
                \ {<<>>}}

LastIdsJsons ==
    {Json(TRUE, obj, <<>>) : obj \in ObjectsOver(MonitorKeys, SeqsUpTo(Ids, MaxListLen))}

\* ids.forEach(id => newState.seenTweets[id] = { likes: 0, ..., lastChecked: Date.now() })
\* for every [key, ids] of Object.entries(json.lastIds).
RECURSIVE StampIds(_, _, _)
StampIds(acc, ids, now) ==
    IF ids = <<>> THEN acc
    ELSE StampIds(SetProp(acc, Head(ids), JStats(Stats(0, 0, 0, now))), Tail(ids), now)

RECURSIVE StampLists(_, _, _)
StampLists(acc, lists, now) ==
    IF lists = <<>> THEN acc
    ELSE StampLists(StampIds(acc, Head(lists).val, now), Tail(lists), now)

\* for (monitorKey in json.seenTweets) for (tweetId in tweets)
\*     newState.seenTweets[tweetId] = tweets[tweetId]
RECURSIVE FlattenFirstWins(_, _)
FlattenFirstWins(acc, monitors) ==
    IF monitors = <<>> THEN acc
    ELSE FlattenFirstWins(
            SetAll(acc, SelectSeq(Head(monitors).val.tweets,
                                  LAMBDA prop : prop.key \notin KeysOf(acc))),
            Tail(monitors))

RECURSIVE Flatten(_, _)
Flatten(acc, monitors) ==
    IF monitors = <<>> THEN acc
    ELSE Flatten(SetAll(acc, Head(monitors).val.tweets), Tail(monitors))

\* The body of loadState's try block after JSON.parse.
migrateRestamp(json, now) ==
    IF json.lastIdsIn
    THEN Json(FALSE, <<>>, StampLists(<<>>, json.lastIds, now))
    ELSE IF Len(json.seenTweets) > 0 /\ ~json.seenTweets[1].val.likesIn
    THEN Json(FALSE, <<>>, Flatten(<<>>, json.seenTweets))
    ELSE Json(FALSE, <<>>,
              [i \in 1..Len(json.seenTweets) |->
                  [key |-> json.seenTweets[i].key,
                   val |-> JStats([json.seenTweets[i].val.stats EXCEPT !.lastChecked = now])]])

migrate(json, now) ==
    IF json.lastIdsIn
    THEN Json(FALSE, <<>>, StampLists(<<>>, json.lastIds, now))
    ELSE IF Len(json.seenTweets) > 0 /\ ~json.seenTweets[1].val.likesIn
    THEN Json(FALSE, <<>>, Flatten(<<>>, json.seenTweets))
    ELSE json

MigrateInit ==
    /\ fetch = [pc |-> "unused"]
    /\ search = [pc |-> "unused"]
    /\ env = [pc |-> "unused"]
    /\ file = [pc |-> "unused"]
    /\ tasks = <<>>
    /\ clock = 0
    /\ lastVipCheck = 0
    /\ alive = FALSE
    /\ delivered = <<>>
    /\ migration \in {[pc |-> "parsed", raw |-> json, once |-> json, twice |-> json] :
                         json \in FlatJsons \cup NestedJsons \cup LastIdsJsons}
    /\ alert = [pc |-> "unused"]
    /\ extraction = [pc |-> "unused"]
    /\ legacy = [pc |-> "unused"]
    /\ vips = [pc |-> "unused"]

\* loadState at time now on the parsed file.
MigrateOnce(now) ==
    /\ migration.pc = "parsed"
    /\ migration' = [migration EXCEPT !.pc = "once", !.once = migrate(migration.raw, now),
                                      !.twice = migrate(migration.raw, now)]

\* loadState at a later time on what the first call returned.
MigrateAgain(now) ==
    /\ migration.pc = "once"
    /\ migration' = [migration EXCEPT !.pc = "twice", !.twice = migrate(migration.once, now)]

MigrateNext ==
    \/ MigrateOnce(StartTime)
          /\ UNCHANGED <<fetch, search, env, file, tasks, clock, lastVipCheck, alive, delivered, alert,
                       extraction, legacy, vips>>
    \/ MigrateAgain(StartTime + 1)
          /\ UNCHANGED <<fetch, search, env, file, tasks, clock, lastVipCheck, alive, delivered, alert,
                       extraction, legacy, vips>>

SpecMigrate == MigrateInit /\ [][MigrateNext]_vars

\* C20: migration is idempotent: migrating what a migration returned, from
\* either legacy shape or from the flat shape, returns it unchanged, with
\* the same identifiers, counters and last-checked times; and migrating a
\* flat state returns it unchanged.
C20_MigrationIdempotent ==
    /\ migration.pc = "twice" => migration.twice = migration.once
    /\ (migration.pc \in {"once", "twice"} /\ migration.raw \in FlatJsons) =>
          migration.once = migration.raw
    /\ migration.pc \in {"once", "twice"} =>
          /\ ~migration.once.lastIdsIn
          /\ DistinctKeys(migration.once.seenTweets)
          /\ \A i \in 1..Len(migration.once.seenTweets) :
                migration.once.seenTweets[i].val.likesIn

\* A per-monitor file with one post under both monitors, with different
\* counters, migrated twice.
C20_Witness ==
    /\ migration.pc = "twice"
    /\ Len(migration.raw.seenTweets) = 2
    /\ ~migration.raw.seenTweets[1].val.likesIn
    /\ Len(migration.raw.seenTweets[1].val.tweets) = 2
    /\ Len(migration.once.seenTweets) = 2
    /\ \E i \in 1..2, j \in 1..Len(migration.raw.seenTweets[2].val.tweets) :
          /\ migration.raw.seenTweets[1].val.tweets[i].key =
                migration.raw.seenTweets[2].val.tweets[j].key
          /\ migration.raw.seenTweets[1].val.tweets[i].val #
                migration.raw.seenTweets[2].val.tweets[j].val

\* A lastIds file migrated twice, at two different times.
C20_WitnessLastIds ==
    /\ migration.pc = "twice"
    /\ migration.raw.lastIdsIn
    /\ Len(migration.once.seenTweets) = 2
    /\ migration.twice.seenTweets[1].val.stats.lastChecked = StartTime

\* ===================================================================
\* Monitor engine: processMonitor, runMonitors
\* ===================================================================
Tweet(id, likes, retweets, replies, createdAt) ==
    [id |-> id, likes |-> likes, retweets |-> retweets, replies |-> replies,
     createdAt |-> createdAt]

\* tweet.likes || 0
OrZero(count) == IF count = NoCount THEN 0 ELSE count

\* if (tweet.createdAt) { if (now - tweetTime > THREE_DAYS_MS) continue; }
IsStaleNever(tweet, now) == FALSE

IsStale(tweet, now) == tweet.createdAt # NoTime /\ now - tweet.createdAt > THREE_DAYS_MS

\* The classification: "new", "growth", or "none" when shouldAlert stays false.
AlertReasonNewNeedsTraction(seenMap, tweet) ==
    LET currentLikes == OrZero(tweet.likes)
        isSeen       == tweet.id \in DOMAIN seenMap
        prevLikes    == IF isSeen THEN seenMap[tweet.id].likes ELSE 0
        gain         == currentLikes - prevLikes
        base         == IF prevLikes = 0 THEN 1 ELSE prevLikes
    IN  IF /\ currentLikes >= TRACTION_THRESHOLD_LIKES
           /\ 2 * gain >= base
           /\ gain >= MIN_LIKES_GAIN
        THEN (IF isSeen THEN "growth" ELSE "new")
        ELSE "none"

AlertReasonNoMinGain(seenMap, tweet) ==
    LET currentLikes == OrZero(tweet.likes)
        isSeen       == tweet.id \in DOMAIN seenMap
        prevLikes    == IF isSeen THEN seenMap[tweet.id].likes ELSE 0
        gain         == currentLikes - prevLikes
        base         == IF prevLikes = 0 THEN 1 ELSE prevLikes
    IN  IF ~isSeen THEN "new"
        ELSE IF currentLikes >= TRACTION_THRESHOLD_LIKES /\ 2 * gain >= base
        THEN "growth"
        ELSE "none"

AlertReasonNoPercent(seenMap, tweet) ==
    LET currentLikes == OrZero(tweet.likes)
        isSeen       == tweet.id \in DOMAIN seenMap
        prevLikes    == IF isSeen THEN seenMap[tweet.id].likes ELSE 0
        gain         == currentLikes - prevLikes
    IN  IF ~isSeen THEN "new"
        ELSE IF currentLikes >= TRACTION_THRESHOLD_LIKES /\ gain >= MIN_LIKES_GAIN
        THEN "growth"
        ELSE "none"

AlertReason(seenMap, tweet) ==
    LET currentLikes == OrZero(tweet.likes)
        isSeen       == tweet.id \in DOMAIN seenMap
        prevLikes    == IF isSeen THEN seenMap[tweet.id].likes ELSE 0
        gain         == currentLikes - prevLikes
        base         == IF prevLikes = 0 THEN 1 ELSE prevLikes
    IN  IF ~isSeen THEN "new"
        ELSE IF /\ currentLikes >= TRACTION_THRESHOLD_LIKES
                /\ 2 * gain >= base       \* growth >= TRACTION_GROWTH_PERCENT, 0.5
                /\ gain >= MIN_LIKES_GAIN
        THEN "growth"
        ELSE "none"

\* seenMap[tweet.id] = { likes, retweets, replies, lastChecked: now }
ObserveOnlyUnseen(seenMap, tweet, now) ==
    IF tweet.id \in DOMAIN seenMap THEN seenMap
    ELSE Put(seenMap, tweet.id,
             Stats(OrZero(tweet.likes), OrZero(tweet.retweets), OrZero(tweet.replies), now))

Observe(seenMap, tweet, now) ==
    Put(seenMap, tweet.id,
        Stats(OrZero(tweet.likes), OrZero(tweet.retweets), OrZero(tweet.replies), now))

\* postToDiscord: the webhook POST and what the caller sees of it.  A
\* transport error and a non-2xx answer are caught and logged inside.
PostOutcomes == {"ok", "httpError", "transportError"}

postToDiscordRejects(outcome) == [accepted |-> outcome = "ok", rejects |-> outcome # "ok"]

postToDiscord(outcome) == [accepted |-> outcome = "ok", rejects |-> FALSE]

BlankTask(pc) ==
    [pc |-> pc, mon |-> 0, now |-> 0, state |-> EmptyMap, results |-> <<>>, idx |-> 0,
     reason |-> "none", failedIds |-> {}, erredMons |-> {}, saved |-> FALSE,
     threw |-> FALSE, kind |-> "map"]

\* The for loop of processMonitor from record idx up to its next await (the
\* delivery of an alert) or to its end, where runMonitors sleeps.  With
\* seenMap undefined, seenMap[tweet.id] throws a TypeError that leaves
\* processMonitor and runMonitors for the catch of doPoll.
RECURSIVE RunLoop(_)
RunLoop(t) ==
    IF t.idx > Len(t.results) THEN [t EXCEPT !.pc = "sleep"]
    ELSE LET tweet == t.results[t.idx] IN
         IF IsStale(tweet, t.now)
         THEN RunLoop([t EXCEPT !.idx = @ + 1])
         ELSE IF t.kind = "undefined"
         THEN [t EXCEPT !.pc = "polled", !.threw = TRUE]
         ELSE IF AlertReason(t.state, tweet) # "none"
         THEN [t EXCEPT !.pc = "deliver", !.reason = AlertReason(t.state, tweet)]
         ELSE RunLoop([t EXCEPT !.state = Observe(@, tweet, t.now), !.idx = @ + 1])

\* if (res.error) { log; return; }
OnSearchErrorThrow(t) == [t EXCEPT !.pc = "polled", !.threw = TRUE, !.erredMons = @ \cup {t.mon}]

OnSearchErrorReset(t) == [t EXCEPT !.pc = "sleep", !.state = EmptyMap, !.erredMons = @ \cup {t.mon}]

OnSearchError(t) == [t EXCEPT !.pc = "sleep", !.erredMons = @ \cup {t.mon}]

\* After await postToDiscord: the state update of the record and the rest of
\* the loop; a rejection leaves processMonitor and runMonitors for the catch
\* of doPoll, and so does the assignment seenMap[tweet.id] = ... when seenMap
\* is a number or a boolean (a TypeError in module code, which is strict).
AfterPostSkipUpdate(t, out) ==
    IF out.rejects THEN [t EXCEPT !.pc = "polled", !.threw = TRUE]
    ELSE LET tweet == t.results[t.idx] IN
         RunLoop([t EXCEPT !.state = IF out.accepted THEN Observe(@, tweet, t.now) ELSE @,
                           !.idx = @ + 1, !.reason = "none",
                           !.failedIds = IF out.accepted THEN @ ELSE @ \cup {tweet.id}])

AfterPost(t, out) ==
    IF out.rejects
    THEN [t EXCEPT !.pc = "polled", !.threw = TRUE,
                   !.failedIds = @ \cup {t.results[t.idx].id}]
    ELSE IF t.kind = "scalar"
    THEN [t EXCEPT !.pc = "polled", !.threw = TRUE,
                   !.failedIds = IF out.accepted THEN @ ELSE @ \cup {t.results[t.idx].id}]
    ELSE LET tweet == t.results[t.idx] IN
         RunLoop([t EXCEPT !.state = Observe(@, tweet, t.now),
                           !.idx = @ + 1, !.reason = "none",
                           !.failedIds = IF out.accepted THEN @ ELSE @ \cup {tweet.id}])

\* What searchNitterGlobal hands to processMonitor: an error, or records with
\* distinct identifiers.
RECURSIVE ResultsUpTo(_, _)
ResultsUpTo(tweets, n) ==
    IF n = 0 THEN {<<>>}
    ELSE LET shorter == ResultsUpTo(tweets, n - 1)
         IN  shorter \cup
             UNION {{Append(r, tw) : tw \in {x \in tweets : \A i \in 1..Len(r) : r[i].id # x.id}} :
                      r \in {q \in shorter : Len(q) = n - 1}}

SearchResponses(tweets) ==
    {[error |-> TRUE, results |-> <<>>]}
    \cup {[error |-> FALSE, results |-> r] : r \in ResultsUpTo(tweets, MaxResults)}

\* ===================================================================
\* Scheduler: run, doPoll, doVipCheck, and checkVips
\* ===================================================================
TaskIds == 0..MaxTicks

CycleRunning(t) == tasks[t].pc \in {"search", "deliver", "sleep"}
VipRunning(t) == tasks[t].pc = "vip"
Finished(t) == tasks[t].pc \in {"done", "exited"}

\* runMonitors up to its first await: the webhook check, loadState, and the
\* entry of processMonitor for the first monitor.
BeginPoll(now) ==
    IF ~env.webhook THEN BlankTask("polled")
    ELSE IF LoadedKind(file) = "raised" THEN [BlankTask("polled") EXCEPT !.threw = TRUE]
    ELSE [BlankTask("search") EXCEPT !.state = loadState(file, now), !.mon = 1,
                                     !.kind = LoadedKind(file),
                                     !.now = now]

WorkerInit ==
    /\ fetch = [pc |-> "unused"]
    /\ search = [pc |-> "unused"]
    /\ migration = [pc |-> "unused"]
    /\ alert = [pc |-> "unused"]
    /\ extraction = [pc |-> "unused"]
    /\ legacy = [pc |-> "unused"]
    /\ vips = [pc |-> "unused"]
    /\ env \in [webhook : BOOLEAN, mainAccount : BOOLEAN, apiKey : BOOLEAN]
    /\ file \in StateFiles
    /\ tasks = [t \in TaskIds |-> BlankTask("idle")]
    /\ clock = StartTime
    /\ lastVipCheck = 0
    /\ alive = TRUE
    /\ delivered = [id \in Ids |-> 0]

\* run(): await doPoll() of the run at start.
Start ==
    /\ alive
    /\ tasks[0].pc = "idle"
    /\ tasks' = [tasks EXCEPT ![0] = BeginPoll(clock)]
    /\ UNCHANGED <<env, file, clock, lastVipCheck, alive, delivered>>

\* setInterval fires, whatever the earlier callbacks are doing: the timer
\* does not wait for the promise of an async callback.  It is set once the
\* run at start has finished.
Tick(t) ==
    /\ alive
    /\ t >= 1
    /\ tasks[t].pc = "idle"
    /\ \A u \in 0..(t - 1) : tasks[u].pc # "idle"
    /\ Finished(0)
    /\ clock' = clock + 1
    /\ tasks' = [tasks EXCEPT ![t] = BeginPoll(clock')]
    /\ UNCHANGED <<env, file, lastVipCheck, alive, delivered>>

\* await searchNitterGlobal(...) returns.
SearchReturns(t, res) ==
    /\ alive
    /\ tasks[t].pc = "search"
    /\ tasks' = [tasks EXCEPT ![t] =
                   IF res.error THEN OnSearchError(@)
                   ELSE RunLoop([@ EXCEPT !.results = res.results, !.idx = 1])]
    /\ UNCHANGED <<env, file, clock, lastVipCheck, alive, delivered>>

\* await postToDiscord(...) is over.
Deliver(t, outcome) ==
    /\ alive
    /\ tasks[t].pc = "deliver"
    /\ LET out == postToDiscord(outcome)
           id  == tasks[t].results[tasks[t].idx].id
       IN  /\ tasks' = [tasks EXCEPT ![t] = AfterPost(@, out)]
           /\ delivered' =
                 IF out.accepted /\ tasks[t].reason = "new" /\ delivered[id] < 2
                 THEN [delivered EXCEPT ![id] = @ + 1]
                 ELSE delivered
    /\ UNCHANGED <<env, file, clock, lastVipCheck, alive>>

\* The two-second sleep after a monitor is over: the next monitor, or
\* saveState(state) after the last one.
SleepDoneSavesEachQuery(t) ==
    /\ alive
    /\ tasks[t].pc = "sleep"
    /\ IF tasks[t].mon < Len(Monitors)
       THEN tasks' = [tasks EXCEPT ![t].pc = "search", ![t].mon = @ + 1,
                                   ![t].now = clock,
                                   ![t].results = <<>>, ![t].idx = 0]
       ELSE tasks' = [tasks EXCEPT ![t].pc = "polled", ![t].saved = TRUE,
                                   ![t].results = <<>>, ![t].idx = 0]
    /\ file' = IF tasks[t].kind = "map" THEN saveState(tasks[t].state) ELSE file
    /\ UNCHANGED <<env, clock, lastVipCheck, alive, delivered>>

SleepDoneSkipsQuery(t) ==
    /\ alive
    /\ tasks[t].pc = "sleep"
    /\ IF tasks[t].mon < Len(Monitors)
       THEN /\ tasks' = [tasks EXCEPT ![t].pc = "search", ![t].mon = Len(Monitors),
                                      ![t].now = clock,
                                      ![t].results = <<>>, ![t].idx = 0]
            /\ file' = file
       ELSE /\ tasks' = [tasks EXCEPT ![t].pc = "polled", ![t].saved = TRUE,
                                      ![t].results = <<>>, ![t].idx = 0]
            /\ file' = IF tasks[t].kind = "map" THEN saveState(tasks[t].state)
                       ELSE file
    /\ UNCHANGED <<env, clock, lastVipCheck, alive, delivered>>

\* The step to the next monitor with a state read from the file again, each
\* query working on its own copy.
SleepDoneReloadsState(t) ==
    /\ alive
    /\ tasks[t].pc = "sleep"
    /\ IF tasks[t].mon < Len(Monitors)
       THEN /\ tasks' = [tasks EXCEPT ![t].pc = "search", ![t].mon = @ + 1,
                                      ![t].now = clock,
                                      ![t].state = loadState(file, clock),
                                      ![t].results = <<>>, ![t].idx = 0]
            /\ file' = file
       ELSE /\ tasks' = [tasks EXCEPT ![t].pc = "polled", ![t].saved = TRUE,
                                      ![t].results = <<>>, ![t].idx = 0]
            /\ file' = IF tasks[t].kind = "map" THEN saveState(tasks[t].state)
                       ELSE file
    /\ UNCHANGED <<env, clock, lastVipCheck, alive, delivered>>

SleepDone(t) ==
    /\ alive
    /\ tasks[t].pc = "sleep"
    /\ IF tasks[t].mon < Len(Monitors)
       THEN /\ tasks' = [tasks EXCEPT ![t].pc = "search", ![t].mon = @ + 1,
                                      ![t].now = clock,
                                      ![t].results = <<>>, ![t].idx = 0]
            /\ file' = file
       ELSE /\ tasks' = [tasks EXCEPT ![t].pc = "polled", ![t].saved = TRUE,
                                      ![t].results = <<>>, ![t].idx = 0]
            /\ file' = IF tasks[t].kind = "map" THEN saveState(tasks[t].state)
                       ELSE file      \* the parsed value is written back
    /\ UNCHANGED <<env, clock, lastVipCheck, alive, delivered>>

\* doVipCheck() after doPoll has returned: the interval test, and checkVips
\* up to its first await, where a missing setting ends the process.
VipCheck(t) ==
    /\ alive
    /\ tasks[t].pc = "polled"
    /\ IF clock - lastVipCheck >= VipIntervalTicks
       THEN IF ~env.mainAccount \/ ~env.apiKey
            THEN /\ alive' = FALSE
                 /\ tasks' = [tasks EXCEPT ![t] = BlankTask("exited")]
            ELSE /\ alive' = alive
                 /\ tasks' = [tasks EXCEPT ![t] = BlankTask("vip")]
       ELSE /\ alive' = alive
            /\ tasks' = [tasks EXCEPT ![t] = BlankTask("done")]
    /\ UNCHANGED <<env, file, clock, lastVipCheck, delivered>>

\* try { await checkVips(); lastVipCheck = Date.now(); } catch (err) { log }
OnVipReturnStampsAlways(last, now, ok) == now

OnVipReturn(last, now, ok) == IF ok THEN now ELSE last

\* await checkVips() is over: it returned, or it rejected (its saveState
\* could not write) and the catch of doVipCheck logged the error.
VipReturns(t, ok) ==
    /\ alive
    /\ tasks[t].pc = "vip"
    /\ lastVipCheck' = OnVipReturn(lastVipCheck, clock, ok)
    /\ tasks' = [tasks EXCEPT ![t] = [BlankTask("done") EXCEPT !.threw = ~ok]]
    /\ UNCHANGED <<env, file, clock, alive, delivered>>

\* The records the searches return in the worker's specification.
WorkerTweets ==
    {Tweet(id, likes, NoCount, NoCount, NoTime) : id \in {PostIds[1]}, likes \in {8}}

Next ==
    \/ Start /\ UNCHANGED <<fetch, search, migration, alert, extraction, legacy, vips>>
    \/ \E t \in TaskIds : Tick(t) /\ UNCHANGED <<fetch, search, migration, alert, extraction, legacy, vips>>
    \/ \E t \in TaskIds, res \in SearchResponses(WorkerTweets) :
          SearchReturns(t, res) /\ UNCHANGED <<fetch, search, migration, alert, extraction, legacy, vips>>
    \/ \E t \in TaskIds, outcome \in PostOutcomes :
          Deliver(t, outcome) /\ UNCHANGED <<fetch, search, migration, alert, extraction, legacy, vips>>
    \/ \E t \in TaskIds : SleepDone(t) /\ UNCHANGED <<fetch, search, migration, alert, extraction, legacy, vips>>
    \/ \E t \in TaskIds : VipCheck(t) /\ UNCHANGED <<fetch, search, migration, alert, extraction, legacy, vips>>
    \/ \E t \in TaskIds : VipReturns(t, TRUE) /\ UNCHANGED <<fetch, search, migration, alert, extraction, legacy, vips>>

Spec == WorkerInit /\ [][Next]_vars

\* The same worker when every job is over before the timer fires again, with
\* more varied search results.
TickAfterJobs(t) ==
    /\ \A u \in TaskIds : u < t => Finished(u)
    /\ Tick(t)

CycleTweets ==
    {Tweet(id, likes, NoCount, NoCount, createdAt) :
        id \in Ids, likes \in {NoCount, 8}, createdAt \in {NoTime, 0, StartTime}}

NextCycle ==
    \/ Start /\ UNCHANGED <<fetch, search, migration, alert, extraction, legacy, vips>>
    \/ \E t \in TaskIds : TickAfterJobs(t) /\ UNCHANGED <<fetch, search, migration, alert, extraction, legacy, vips>>
    \/ \E t \in TaskIds, res \in SearchResponses(CycleTweets) :
          SearchReturns(t, res) /\ UNCHANGED <<fetch, search, migration, alert, extraction, legacy, vips>>
    \/ \E t \in TaskIds, outcome \in PostOutcomes :
          Deliver(t, outcome) /\ UNCHANGED <<fetch, search, migration, alert, extraction, legacy, vips>>
    \/ \E t \in TaskIds : SleepDone(t) /\ UNCHANGED <<fetch, search, migration, alert, extraction, legacy, vips>>
    \/ \E t \in TaskIds : VipCheck(t) /\ UNCHANGED <<fetch, search, migration, alert, extraction, legacy, vips>>
    \/ \E t \in TaskIds : VipReturns(t, TRUE) /\ UNCHANGED <<fetch, search, migration, alert, extraction, legacy, vips>>

SpecCycle == WorkerInit /\ [][NextCycle]_vars

\* The worker watching one post over a state file that may already hold the
\* post with any like count.  The first search of the process returns the
\* post with any like count and age; the later searches return it with few.
MaxLikes == 16      \* largest like count of a record or a stored entry

LikeCounts == 0..MaxLikes

RecordTweets ==
    {Tweet(PostIds[1], likes, retweets, replies, createdAt) :
        likes \in LikeCounts \cup {NoCount}, retweets \in {NoCount, 2},
        replies \in {NoCount, 1}, createdAt \in {NoTime, 0, 1}}

LaterTweets ==
    {Tweet(PostIds[1], likes, NoCount, NoCount, createdAt) :
        likes \in {NoCount, 8}, createdAt \in {NoTime, 0}}

FirstSearch(t) == t = 0 /\ tasks[t].mon = 1

RecordFiles ==
    {AbsentFile} \cup {FlatFile([id \in {PostIds[1]} |-> Stats(l, 0, 0, 0)]) : l \in LikeCounts}

RecordInit ==
    /\ fetch = [pc |-> "unused"]
    /\ search = [pc |-> "unused"]
    /\ migration = [pc |-> "unused"]
    /\ alert = [pc |-> "unused"]
    /\ extraction = [pc |-> "unused"]
    /\ legacy = [pc |-> "unused"]
    /\ vips = [pc |-> "unused"]
    /\ env \in [webhook : BOOLEAN, mainAccount : BOOLEAN, apiKey : BOOLEAN]
    /\ file \in RecordFiles
    /\ tasks = [t \in TaskIds |-> BlankTask("idle")]
    /\ clock = StartTime
    /\ lastVipCheck = 0
    /\ alive = TRUE
    /\ delivered = [id \in Ids |-> 0]

NextRecord ==
    \/ Start /\ UNCHANGED <<fetch, search, migration, alert, extraction, legacy, vips>>
    \/ \E t \in TaskIds : TickAfterJobs(t) /\ UNCHANGED <<fetch, search, migration, alert, extraction, legacy, vips>>
    \/ \E t \in TaskIds, res \in SearchResponses(RecordTweets) :
          FirstSearch(t) /\ SearchReturns(t, res) /\ UNCHANGED <<fetch, search, migration, alert, extraction, legacy, vips>>
    \/ \E t \in TaskIds, res \in SearchResponses(LaterTweets) :
          ~FirstSearch(t) /\ SearchReturns(t, res) /\ UNCHANGED <<fetch, search, migration, alert, extraction, legacy, vips>>
    \/ \E t \in TaskIds, outcome \in PostOutcomes :
          Deliver(t, outcome) /\ UNCHANGED <<fetch, search, migration, alert, extraction, legacy, vips>>
    \/ \E t \in TaskIds : SleepDone(t) /\ UNCHANGED <<fetch, search, migration, alert, extraction, legacy, vips>>
    \/ \E t \in TaskIds : VipCheck(t) /\ UNCHANGED <<fetch, search, migration, alert, extraction, legacy, vips>>
    \/ \E t \in TaskIds : VipReturns(t, TRUE) /\ UNCHANGED <<fetch, search, migration, alert, extraction, legacy, vips>>

SpecRecord == RecordInit /\ [][NextRecord]_vars

\* The worker started over a state file that nothing of the program wrote.
CorruptInit ==
    /\ fetch = [pc |-> "unused"]
    /\ search = [pc |-> "unused"]
    /\ migration = [pc |-> "unused"]
    /\ alert = [pc |-> "unused"]
    /\ extraction = [pc |-> "unused"]
    /\ legacy = [pc |-> "unused"]
    /\ vips = [pc |-> "unused"]
    /\ env \in [webhook : BOOLEAN, mainAccount : BOOLEAN, apiKey : BOOLEAN]
    /\ file \in {CorruptFile(shape) : shape \in CorruptShapes}
    /\ tasks = [t \in TaskIds |-> BlankTask("idle")]
    /\ clock = StartTime
    /\ lastVipCheck = 0
    /\ alive = TRUE
    /\ delivered = [id \in Ids |-> 0]

SpecCorrupt == CorruptInit /\ [][NextCycle]_vars

\* -------------------------------------------------------------------
\* Claims about the scheduler and the monitor engine
\* -------------------------------------------------------------------
JobRunning(t) == CycleRunning(t) \/ VipRunning(t)

\* C1: once a 'new' alert has been delivered for a post identifier, no later
\* cycle of the live process delivers a 'new' alert for that identifier again.
C1_NewAlertDeliveredOnce == \A id \in Ids : delivered[id] <= 1

\* A step of task t in which the delivery of an alert failed.
DeliveryFailed(t) ==
    /\ tasks[t].pc = "deliver"
    /\ tasks'[t].failedIds # tasks[t].failedIds

\* Record r of task a needs no alert: it is too old or its classification is
\* neither new nor growth.
NoAlertDue(a, r) == IsStale(r, a.now) \/ AlertReason(a.state, r) = "none"

C3_DeliveryFailureKeepsStateUpdate ==
    [][\A t \in TaskIds :
          /\ DeliveryFailed(t) =>
                LET a == tasks[t]
                    r == a.results[a.idx]
                IN  /\ r.id \in DOMAIN tasks'[t].state
                    /\ tasks'[t].state[r.id] =
                          Stats(OrZero(r.likes), OrZero(r.retweets), OrZero(r.replies), a.now)
          /\ (tasks[t].pc = "sleep" /\ tasks'[t].pc = "polled") =>
                /\ tasks'[t].saved
                /\ file'.shape = "flat"
                /\ \A id \in tasks[t].failedIds :
                      /\ id \in DOMAIN file'.seenTweets
                      /\ file'.seenTweets[id] = tasks[t].state[id]
                      /\ file'.seenTweets[id].lastChecked >= StartTime + t
          /\ (tasks'[t].failedIds # {} /\ tasks'[t].pc = "polled") => tasks'[t].saved]_vars

C3_Witness ==
    \E t \in TaskIds :
        /\ tasks[t].pc = "polled"
        /\ tasks[t].saved
        /\ \E id \in tasks[t].failedIds :
              /\ id \in DOMAIN file.seenTweets
              /\ file.seenTweets[id].likes = 8
              /\ file.seenTweets[id].lastChecked = StartTime + t
              /\ delivered[id] = 0

\* C4: at no time are two jobs in progress at once, whether two monitor
\* cycles, two relationship checks, or one of each.
C4_NoTwoJobsAtOnce ==
    \A t, u \in TaskIds : (t # u /\ JobRunning(t)) => ~JobRunning(u)

\* C5: whatever fails inside a monitor cycle or inside the relationship
\* check, its missing-configuration paths included, the process with its
\* timer goes on running.
C5_SchedulerKeepsRunning == alive

\* A step of task t in which the search of its query returned an error.
SearchFailed(t) ==
    /\ tasks[t].pc = "search"
    /\ tasks'[t].erredMons # tasks[t].erredMons

\* C6: a search error of one query delivers no alert and changes no state
\* entry, the later queries of the cycle still run, and what the earlier
\* queries put into the state is kept and saved at the end of the cycle.
C6_SearchErrorSkipsOnlyThatQuery ==
    [][\A t \in TaskIds :
          /\ SearchFailed(t) =>
                /\ tasks'[t].state = tasks[t].state
                /\ tasks'[t].failedIds = tasks[t].failedIds
                /\ tasks'[t].pc = "sleep"
                /\ tasks'[t].mon = tasks[t].mon
                /\ delivered' = delivered
                /\ file' = file
          /\ (tasks[t].erredMons # {} /\ tasks[t].pc = "sleep" /\ tasks'[t] # tasks[t]) =>
                /\ tasks'[t].state = tasks[t].state
                /\ IF tasks[t].mon < Len(Monitors)
                   THEN tasks'[t].pc = "search" /\ tasks'[t].mon = tasks[t].mon + 1
                   ELSE /\ tasks'[t].pc = "polled" /\ tasks'[t].saved
                        /\ file' = FlatFile(tasks[t].state)
          /\ tasks'[t].erredMons # {} => ~tasks'[t].threw]_vars

C6_Witness ==
    \E t \in TaskIds :
        /\ tasks[t].pc = "polled"
        /\ tasks[t].saved
        /\ tasks[t].erredMons = {2, 3}
        /\ file.shape = "flat"
        /\ \E id \in DOMAIN file.seenTweets :
              /\ file.seenTweets[id].likes = 8
              /\ file.seenTweets[id].lastChecked = StartTime + t

\* -------------------------------------------------------------------
\* Claims about the classification of one record
\* -------------------------------------------------------------------
Max(a, b) == IF a > b THEN a ELSE b

\* A step of task t in which a search returned records; the first of them is
\* evaluated in the same step against the state the task held before.
Evaluates(t) == tasks[t].pc = "search" /\ tasks'[t].results # <<>>

\* The first record was passed without an alert.
PassedQuietly(t) ==
    /\ tasks'[t].idx > 1
    /\ tasks'[t].failedIds = tasks[t].failedIds
    /\ delivered' = delivered

\* The first record waits for the delivery of its alert.
AlertsAs(t, reason) ==
    tasks'[t].pc = "deliver" /\ tasks'[t].idx = 1 /\ tasks'[t].reason = reason

GrowthDue(stored, current) ==
    /\ current >= 5
    /\ current > stored
    /\ 2 * (current - stored) >= Max(stored, 1)
    /\ current - stored >= 5

\* C13: a record that is not stale, has a known like count and whose
\* identifier has an entry alerts as growth exactly when its likes are at
\* least 5, above the stored likes, at least 50% of max(stored, 1) above
\* them and at least 5 above them; otherwise it raises no alert.
C13_GrowthExactlyWhenDue ==
    [][\A t \in TaskIds :
          Evaluates(t) =>
             LET r == tasks'[t].results[1]
                 seenMap == tasks[t].state
             IN  (~IsStale(r, tasks[t].now) /\ r.likes # NoCount /\ r.id \in DOMAIN seenMap) =>
                    IF GrowthDue(seenMap[r.id].likes, r.likes)
                    THEN AlertsAs(t, "growth")
                    ELSE PassedQuietly(t)]_vars

\* Stored likes 10 and observed likes 16: the growth alert is due.
C13_Witness ==
    \E t \in TaskIds :
        /\ tasks[t].pc = "deliver"
        /\ tasks[t].reason = "growth"
        /\ tasks[t].results[tasks[t].idx].likes = 16
        /\ tasks[t].state[tasks[t].results[tasks[t].idx].id].likes = 10

\* Stored likes 10 and observed likes 14 passed without an alert.
C13_WitnessUnchanged ==
    \E t \in TaskIds :
        /\ tasks[t].pc = "sleep"
        /\ tasks[t].mon = 1
        /\ file.shape = "flat" /\ PostIds[1] \in DOMAIN file.seenTweets
        /\ file.seenTweets[PostIds[1]].likes = 10
        /\ tasks[t].results # <<>>
        /\ tasks[t].results[1].likes = 14
        /\ tasks[t].state[PostIds[1]].likes = 14
        /\ tasks[t].failedIds = {}

\* A step of task t in which its record loop ran: a search returned records,
\* or the delivery of an alert came to its end.
LoopRan(t) ==
    \/ Evaluates(t)
    \/ tasks[t].pc = "deliver" /\ tasks'[t].pc \in {"deliver", "sleep"}

\* The records the loop passed without an alert in such a step, and the
\* record it stopped at (0 when it reached the end).
PassedIn(t) ==
    {k \in 1..Len(tasks'[t].results) : k > tasks[t].idx /\ k < tasks'[t].idx}

StoppedAt(t) == IF tasks'[t].pc = "deliver" THEN tasks'[t].idx ELSE 0

SameEntry(before, after, id) ==
    /\ id \in DOMAIN after <=> id \in DOMAIN before
    /\ id \in DOMAIN before => after[id] = before[id]

\* C15: a record whose creation time is known and more than 3 days before
\* the evaluation time raises no alert and leaves the shared state as it
\* was: no entry is made for it, an existing entry keeps its counters and
\* its last-checked time.
C15_StaleRecordIsSkipped ==
    [][\A t \in TaskIds :
          LoopRan(t) =>
             LET results == tasks'[t].results
             IN  \A k \in 1..Len(results) :
                    (/\ k > tasks[t].idx
                     /\ k <= tasks'[t].idx
                     /\ results[k].createdAt # NoTime
                     /\ tasks[t].now - results[k].createdAt > 3) =>
                       /\ StoppedAt(t) # k
                       /\ SameEntry(tasks[t].state, tasks'[t].state, results[k].id)
                       /\ Len(results) = 1 =>
                             /\ tasks'[t].state = tasks[t].state
                             /\ PassedQuietly(t)]_vars

\* A stale record with 16 likes met an entry with 10 likes and left it alone.
C15_Witness ==
    \E t \in TaskIds :
        /\ tasks[t].pc = "sleep"
        /\ tasks[t].results # <<>>
        /\ tasks[t].results[1].createdAt # NoTime
        /\ tasks[t].now - tasks[t].results[1].createdAt > 3
        /\ tasks[t].results[1].likes = 16
        /\ tasks[t].results[1].id \in DOMAIN tasks[t].state
        /\ tasks[t].state[tasks[t].results[1].id] = Stats(10, 0, 0, 0)

\* A stale record of an unseen post left no entry.
C15_WitnessUnseen ==
    \E t \in TaskIds :
        /\ tasks[t].pc = "sleep"
        /\ tasks[t].results # <<>>
        /\ tasks[t].results[1].createdAt # NoTime
        /\ tasks[t].now - tasks[t].results[1].createdAt > 3
        /\ tasks[t].results[1].id \notin DOMAIN tasks[t].state

\* The records whose evaluation came to its end in a step of task t: those
\* passed without an alert and the one whose alert was being delivered.
EvaluatedIn(t) ==
    {k \in 1..Len(tasks'[t].results) : k >= tasks[t].idx /\ k < tasks'[t].idx}

\* The entry holds every counter the record states, and the time.
HoldsObservation(entry, r, now) ==
    /\ r.likes # NoCount => entry.likes = r.likes
    /\ r.retweets # NoCount => entry.retweets = r.retweets
    /\ r.replies # NoCount => entry.replies = r.replies
    /\ entry.lastChecked = now

\* C16: once a record that is not stale has been evaluated, as new, growth
\* or unchanged, the entry of its identifier holds the counters of this
\* observation and the evaluation time, and this is what the cycle saves for
\* the next cycle to compare with.
C16_EntryHoldsLatestObservation ==
    [][\A t \in TaskIds :
          /\ LoopRan(t) =>
                \A k \in EvaluatedIn(t) :
                   LET r == tasks'[t].results[k]
                   IN  ~IsStale(r, tasks[t].now) =>
                          /\ r.id \in DOMAIN tasks'[t].state
                          /\ HoldsObservation(tasks'[t].state[r.id], r, tasks[t].now)
          /\ (tasks[t].pc = "sleep" /\ tasks'[t].pc = "polled") =>
                file' = FlatFile(tasks[t].state)]_vars

\* An entry with 10 likes met a record with 12: no alert, and the entry now
\* holds the record's counters and the time of the cycle.
C16_Witness ==
    \E t \in TaskIds :
        /\ tasks[t].pc = "sleep"
        /\ tasks[t].mon = 1
        /\ tasks[t].failedIds = {}
        /\ delivered[PostIds[1]] = 0
        /\ file.shape = "flat" /\ PostIds[1] \in DOMAIN file.seenTweets
        /\ file.seenTweets[PostIds[1]] = Stats(10, 0, 0, 0)
        /\ tasks[t].results # <<>>
        /\ tasks[t].results[1].likes = 12
        /\ tasks[t].state[PostIds[1]] = Stats(12, 2, 1, StartTime + t)

\* C17: a like count that is absent from a record is unknown, never zero:
\* the record is not classified growth, and its observation does not put 0
\* in the place of a stored like count, for the next known like count to be
\* compared with zero.
C17_UnknownLikesNeverZero ==
    [][\A t \in TaskIds :
          LoopRan(t) =>
             /\ \A k \in EvaluatedIn(t) :
                   LET r == tasks'[t].results[k]
                       seenMap == tasks[t].state
                   IN  (/\ r.likes = NoCount
                        /\ ~IsStale(r, tasks[t].now)
                        /\ r.id \in DOMAIN seenMap
                        /\ seenMap[r.id].likes > 0) =>
                          tasks'[t].state[r.id].likes # 0
             /\ (StoppedAt(t) # 0 /\ tasks'[t].reason = "growth") =>
                   tasks'[t].results[StoppedAt(t)].likes # NoCount]_vars

\* -------------------------------------------------------------------
\* Claims about the state store
\* -------------------------------------------------------------------
\* A step in which task t entered runMonitors with the webhook configured.
BeginsCycle(t) == tasks[t].pc = "idle" /\ tasks'[t].pc # "idle" /\ env.webhook

C19_CorruptFileLoadsWellFormed ==
    \A t \in TaskIds : tasks[t].kind = "map" /\ ~tasks[t].threw

\* The identifiers a lastIds file lists.
ListedIds(f) == UNION {Range(f.lastIds[i].ids) : i \in 1..Len(f.lastIds)}

\* C21: a cycle that loads a lastIds file has an entry for every listed
\* identifier, and no record with a listed identifier raises an alert in
\* that cycle, whatever its like count.
C21_MigratedIdsDoNotAlert ==
    [][\A t \in TaskIds :
          /\ (BeginsCycle(t) /\ file.shape = "lastIds") =>
                ListedIds(file) \subseteq DOMAIN tasks'[t].state
          /\ (LoopRan(t) /\ file.shape = "lastIds") =>
                \A k \in 1..Len(tasks'[t].results) :
                   (/\ k > tasks[t].idx
                    /\ k <= tasks'[t].idx
                    /\ tasks'[t].results[k].id \in ListedIds(file)) =>
                      StoppedAt(t) # k]_vars

\* -------------------------------------------------------------------
\* Claims about the life of the state within a cycle
\* -------------------------------------------------------------------
\* A step in which the cycle of task t came to its end, saved or not.
CycleEnds(t) == CycleRunning(t) /\ tasks'[t].pc = "polled"

\* C22: a cycle loads the state when it begins, before its first query;
\* between its queries it neither loads nor saves; and it ends only after
\* its last query, by writing the state it holds to the file.
C22_LoadOnceSaveOnce ==
    [][\A t \in TaskIds :
          /\ BeginsCycle(t) =>
                /\ tasks'[t].state = loadState(file, clock')
                /\ tasks'[t].mon = 1 /\ tasks'[t].pc = "search"
                /\ ~tasks'[t].saved
                /\ file' = file
          /\ (tasks[t].pc = "sleep" /\ tasks'[t].pc = "search") =>
                /\ tasks'[t].state = tasks[t].state
                /\ ~tasks'[t].saved
                /\ file' = file
          /\ CycleEnds(t) =>
                /\ tasks[t].pc = "sleep" /\ tasks[t].mon = Len(Monitors)
                /\ ~tasks[t].saved /\ tasks'[t].saved
                /\ tasks'[t].state = tasks[t].state
                /\ file' = FlatFile(tasks[t].state)]_vars

\* A later cycle has ended: both posts it evaluated are in the file with the
\* time of this cycle.
C22_Witness ==
    \E t \in TaskIds :
        /\ t >= 1
        /\ tasks[t].pc = "polled" /\ tasks[t].saved
        /\ file = FlatFile(tasks[t].state)
        /\ DOMAIN file.seenTweets = Ids
        /\ \A id \in Ids : file.seenTweets[id].lastChecked = StartTime + t

\* ===================================================================
\* The alert of one record: enrichTweets and postToDiscord
\* ===================================================================
\* accountInfo of the record handed to postToDiscord; NoInfo is undefined.
NoInfo == [present |-> FALSE, followersCount |-> NoCount, followsUs |-> "undefined",
           networkStatus |-> "undefined"]

AccountInfo(followersCount, followsUs, networkStatus) ==
    [present |-> TRUE, followersCount |-> followersCount, followsUs |-> followsUs,
     networkStatus |-> networkStatus]

\* The author of the record: none, the main account, or another account.
AuthorHandles == {"none", "main", "other"}

\* getUserInfo: the followers count, or an error thrown.
UserInfoResults == {[ok |-> TRUE, followers |-> n] : n \in {0, 1200}}
                   \cup {[ok |-> FALSE, followers |-> NoCount]}

\* checkFollows: the target found in the list, not found, or the lookup
\* failed, which checkFollows catches and answers with false.
FollowsResults == {"found", "notFound", "failed"}

\* if (process.env.TWITTER_API_IO_KEY) { try { enrichTweets([tweet]) ... } }
\* up to the first lookup: without the key, or for a record without author
\* handle, the record is posted as it is.
AlertBegin(a) ==
    IF ~a.apiKey \/ a.authorHandle = "none"
    THEN [a EXCEPT !.pc = "post", !.info = NoInfo]
    ELSE [a EXCEPT !.pc = "userInfo"]

\* enrichTweets after await getUserInfo(cleanHandle): on an error the catch
\* sets { networkStatus: "Unknown" }; with no main account, or for the main
\* account itself, followsUs stays false.
OnUserInfo(a, res) ==
    IF ~res.ok
    THEN [a EXCEPT !.pc = "post", !.lookupFailed = TRUE,
                   !.info = AccountInfo(NoCount, "undefined", "Unknown")]
    ELSE IF a.mainAccount /\ a.authorHandle # "main"
    THEN [a EXCEPT !.pc = "follows", !.followers = res.followers]
    ELSE [a EXCEPT !.pc = "post", !.followers = res.followers,
                   !.info = AccountInfo(res.followers, "false", "Out-of-Network")]

\* enrichTweets after await checkFollows(cleanHandle, MAIN_ACCOUNT).
OnFollows(a, res) ==
    [a EXCEPT !.pc = "post",
              !.lookupFailed = (res = "failed"),
              !.info = IF res = "found"
                       THEN AccountInfo(a.followers, "true", "In-Network")
                       ELSE AccountInfo(a.followers, "false", "Out-of-Network")]

\* postToDiscord: the fields of the embed.
EmbedFields(likes, info) ==
    (IF likes # NoCount /\ likes # 0 THEN {"Engagement"} ELSE {})
    \cup (IF info.present /\ info.followersCount # NoCount THEN {"Audience"} ELSE {})
    \cup (IF info.present /\ (info.followsUs # "undefined" \/ info.networkStatus # "undefined")
          THEN {"Intelligence"} ELSE {})

\* postToDiscord: the status line of the Intelligence field.
StatusLine(info) ==
    <<CASE info.networkStatus = "In-Network" -> "In-Network"
        [] info.networkStatus = "Out-of-Network" -> "Out-of-Network"
        [] OTHER -> "Unknown Network",
      CASE info.followsUs = "true" -> "Follows Us"
        [] info.followsUs = "false" -> "Not Following"
        [] OTHER -> "">>

AlertInit ==
    /\ fetch = [pc |-> "unused"]
    /\ search = [pc |-> "unused"]
    /\ migration = [pc |-> "unused"]
    /\ env = [pc |-> "unused"]
    /\ file = [pc |-> "unused"]
    /\ tasks = <<>>
    /\ clock = 0
    /\ lastVipCheck = 0
    /\ alive = FALSE
    /\ extraction = [pc |-> "unused"]
    /\ legacy = [pc |-> "unused"]
    /\ vips = [pc |-> "unused"]
    /\ delivered = <<>>
    /\ alert \in [pc : {"due"}, likes : {NoCount, 0, 8}, authorHandle : AuthorHandles,
                  apiKey : BOOLEAN, mainAccount : BOOLEAN, followers : {NoCount},
                  lookupFailed : {FALSE}, info : {NoInfo}, fields : {{}},
                  statusLine : {<<>>}, calls : {0}, accepted : {FALSE}]

\* shouldAlert is true: lines 206-212 up to the first await.
AlertDue ==
    /\ alert.pc = "due"
    /\ alert' = AlertBegin(alert)

UserInfoReturns(res) ==
    /\ alert.pc = "userInfo"
    /\ alert' = OnUserInfo(alert, res)

FollowsReturns(res) ==
    /\ alert.pc = "follows"
    /\ alert' = OnFollows(alert, res)

\* await postToDiscord(webhookUrl, tweetToPost, label)
PostAlert(outcome) ==
    /\ alert.pc = "post"
    /\ alert' = [alert EXCEPT !.pc = "posted",
                              !.calls = @ + 1,
                              !.fields = EmbedFields(alert.likes, alert.info),
                              !.statusLine = IF "Intelligence" \in EmbedFields(alert.likes, alert.info)
                                             THEN StatusLine(alert.info) ELSE <<>>,
                              !.accepted = postToDiscord(outcome).accepted]

AlertNext ==
    \/ AlertDue /\ UNCHANGED <<fetch, search, migration, env, file, tasks, clock, lastVipCheck, alive, delivered,
                            extraction, legacy, vips>>
    \/ \E res \in UserInfoResults :
          UserInfoReturns(res) /\ UNCHANGED <<fetch, search, migration, env, file, tasks, clock, lastVipCheck, alive, delivered,
                            extraction, legacy, vips>>
    \/ \E res \in FollowsResults :
          FollowsReturns(res) /\ UNCHANGED <<fetch, search, migration, env, file, tasks, clock, lastVipCheck, alive, delivered,
                            extraction, legacy, vips>>
    \/ \E outcome \in PostOutcomes :
          PostAlert(outcome) /\ UNCHANGED <<fetch, search, migration, env, file, tasks, clock, lastVipCheck, alive, delivered,
                            extraction, legacy, vips>>

SpecAlert == AlertInit /\ [][AlertNext]_vars

\* C23: when an enrichment lookup failed for an alerting record, the alert
\* is handed to the sink all the same, and it carries the record without
\* annotation: no account information and no field made from it.
C23_FailedEnrichmentPostsPlainRecord ==
    (alert.pc = "posted" /\ alert.lookupFailed) =>
        /\ alert.calls = 1
        /\ alert.info = NoInfo
        /\ alert.fields \subseteq {"Engagement"}

\* ===================================================================
\* The relationship check on the timer
\* ===================================================================
\* The worker when every job is over before the timer fires again and
\* checkVips may reject.
NextVip ==
    \/ Start /\ UNCHANGED <<fetch, search, migration, alert, extraction, legacy, vips>>
    \/ \E t \in TaskIds : TickAfterJobs(t) /\ UNCHANGED <<fetch, search, migration, alert, extraction, legacy, vips>>
    \/ \E t \in TaskIds, res \in SearchResponses(WorkerTweets) :
          SearchReturns(t, res) /\ UNCHANGED <<fetch, search, migration, alert, extraction, legacy, vips>>
    \/ \E t \in TaskIds, outcome \in PostOutcomes :
          Deliver(t, outcome) /\ UNCHANGED <<fetch, search, migration, alert, extraction, legacy, vips>>
    \/ \E t \in TaskIds : SleepDone(t) /\ UNCHANGED <<fetch, search, migration, alert, extraction, legacy, vips>>
    \/ \E t \in TaskIds : VipCheck(t) /\ UNCHANGED <<fetch, search, migration, alert, extraction, legacy, vips>>
    \/ \E t \in TaskIds, ok \in BOOLEAN :
          VipReturns(t, ok) /\ UNCHANGED <<fetch, search, migration, alert, extraction, legacy, vips>>

SpecVip == WorkerInit /\ [][NextVip]_vars

\* A step in which doVipCheck of task t made its interval test, and whether
\* it called checkVips.
VipTested(t) == tasks[t].pc = "polled" /\ tasks'[t].pc # "polled"
VipStarted(t) == tasks'[t].pc \in {"vip", "exited"}

\* A step in which the relationship check of task t came to its end.
VipEnds(t) == tasks[t].pc = "vip" /\ tasks'[t].pc = "done"

\* C24: the relationship check is called by the run at start; a later run
\* calls it exactly when the interval has passed since lastVipCheck, which
\* is the time the last call returned (0 before any has); a call that
\* rejects leaves lastVipCheck as it was, so the check is still due at the
\* next tick.
C24_VipCheckOnStartAndWhenDue ==
    [][/\ \A t \in TaskIds :
             /\ (VipTested(t) /\ t = 0) => VipStarted(t)
             /\ VipTested(t) =>
                   (VipStarted(t) <=> clock - lastVipCheck >= VipIntervalTicks)
             /\ VipEnds(t) =>
                   IF tasks'[t].threw
                   THEN /\ lastVipCheck' = lastVipCheck
                        /\ clock - lastVipCheck' >= VipIntervalTicks
                   ELSE lastVipCheck' = clock
       /\ lastVipCheck' # lastVipCheck =>
             \E t \in TaskIds : VipEnds(t) /\ lastVipCheck' = clock]_vars

\* The check of the run at start rejected, and the first tick runs it again.
C24_Witness ==
    /\ tasks[0].pc = "done" /\ tasks[0].threw
    /\ tasks[1].pc = "vip"
    /\ lastVipCheck = 0
    /\ clock = StartTime + 1

\* The check of the run at start returned, and the first tick, one interval
\* of the timer later, did not run it.
C24_WitnessNotDue ==
    /\ tasks[0].pc = "done" /\ ~tasks[0].threw
    /\ tasks[1].pc = "done"
    /\ lastVipCheck = StartTime
    /\ clock = StartTime + 1

\* -------------------------------------------------------------------
\* Claims about the migration of the per-monitor shape
\* -------------------------------------------------------------------
\* obj[key], for a key the object has.
GetProp(obj, key) == obj[CHOOSE i \in 1..Len(obj) : obj[i].key = key].val

\* The last monitor, in the stored order, under which the identifier is.
LastMonitorWith(nested, id) ==
    CHOOSE i \in 1..Len(nested) :
        /\ id \in KeysOf(nested[i].val.tweets)
        /\ \A j \in (i + 1)..Len(nested) : id \notin KeysOf(nested[j].val.tweets)

\* C25: migrating the per-monitor shape gives an entry to exactly the
\* identifiers found under some monitor key, and the entry of an identifier
\* is the one under the last monitor key, in the stored order, that has it.
C25_NestedFlattenLastWins ==
    (migration.pc \in {"once", "twice"} /\ migration.raw \in NestedJsons) =>
        LET nested == migration.raw.seenTweets
            flat   == migration.once.seenTweets
        IN  /\ KeysOf(flat) = UNION {KeysOf(nested[i].val.tweets) : i \in 1..Len(nested)}
            /\ DistinctKeys(flat)
            /\ \A id \in KeysOf(flat) :
                  GetProp(flat, id) =
                     GetProp(nested[LastMonitorWith(nested, id)].val.tweets, id)

\* One post is under both monitor keys with different counters, another
\* only under the first: the migrated state has both, the first with the
\* counters of the second monitor key.
C25_Witness ==
    /\ migration.pc = "once"
    /\ migration.raw \in NestedJsons
    /\ Len(migration.raw.seenTweets) = 2
    /\ KeysOf(migration.raw.seenTweets[1].val.tweets) = Ids
    /\ KeysOf(migration.raw.seenTweets[2].val.tweets) = {"p1"}
    /\ GetProp(migration.raw.seenTweets[1].val.tweets, "p1") = JStats(Stats(1, 0, 0, 1))
    /\ GetProp(migration.raw.seenTweets[2].val.tweets, "p1") = JStats(Stats(8, 2, 1, 2))
    /\ KeysOf(migration.once.seenTweets) = Ids
    /\ GetProp(migration.once.seenTweets, "p1") = JStats(Stats(8, 2, 1, 2))

\* A step in which task t wrote the state file: saveState at the end of
\* runMonitors.
Saves(t) ==
    /\ tasks[t].pc = "sleep" /\ tasks[t].mon = Len(Monitors)
    /\ tasks'[t].pc = "polled" /\ tasks'[t].saved

\* C26: a cycle writes the state file in one step only, after its last
\* query; every other step of a cycle leaves the file as it is, and a cycle
\* that an error aborts ends without having written it.
C26_NoWriteBeforeCycleEnd ==
    [][/\ file' # file => \E t \in TaskIds : Saves(t)
       /\ \A t \in TaskIds :
             /\ (CycleRunning(t) /\ tasks'[t] # tasks[t] /\ ~Saves(t)) => file' = file
             /\ (CycleEnds(t) /\ tasks'[t].threw) =>
                   /\ file' = file
                   /\ ~tasks'[t].saved]_vars

\* A later cycle was aborted after an alert had been delivered in it and in
\* the cycle before, and the file is the one the process started with.
C26_Witness ==
    \E t \in TaskIds :
        /\ t >= 1
        /\ tasks[t].pc = "polled" /\ tasks[t].threw /\ ~tasks[t].saved
        /\ \E id \in Ids : delivered[id] = 2
        /\ file = CorruptFile("scalarMap")

\* -------------------------------------------------------------------
\* Claims about the entries of the state and the cycles that share them
\* -------------------------------------------------------------------
\* The identifiers that have an entry in the state a load of the file gives.
FileIds(f) == DOMAIN loadState(f, 0)

\* The identifiers of the records whose evaluation came to its end in a step
\* of task t.
EvaluatedIds(t) ==
    {tasks'[t].results[k].id :
        k \in {j \in EvaluatedIn(t) : ~IsStale(tasks'[t].results[j], tasks[t].now)}}

\* C27: an identifier has an entry in the state of a cycle exactly when a
\* record with it has been evaluated: an entry is made only by an
\* evaluation, every evaluation makes one, and a cycle in progress has an
\* entry for every identifier evaluated and saved before.
C27_EntryIffEvaluated ==
    [][\A t \in TaskIds :
          /\ LoopRan(t) =>
                /\ DOMAIN tasks'[t].state = DOMAIN tasks[t].state \cup EvaluatedIds(t)
          /\ (CycleRunning(t) /\ ~LoopRan(t)) =>
                DOMAIN tasks'[t].state = DOMAIN tasks[t].state
          /\ BeginsCycle(t) => DOMAIN tasks'[t].state = FileIds(file)
          /\ (tasks'[t].pc \in {"search", "deliver", "sleep"}) =>
                FileIds(file') \subseteq DOMAIN tasks'[t].state]_vars

\* C28: a cycle runs its queries in the configured order, the next one
\* after the one before is over, each once; within a query the alerts leave
\* in the order of the records of the search result: the loop only moves
\* forward, and it passes a record on the way to a later alert only when the
\* record is due none.
C28_QueriesAndAlertsInOrder ==
    [][\A t \in TaskIds :
          /\ BeginsCycle(t) => tasks'[t].mon = 1
          /\ (CycleRunning(t) /\ tasks'[t].mon # tasks[t].mon) =>
                /\ tasks[t].pc = "sleep" /\ tasks'[t].pc = "search"
                /\ tasks'[t].mon = tasks[t].mon + 1
          /\ (CycleRunning(t) /\ tasks'[t] # tasks[t] /\ tasks'[t].pc = "search") =>
                /\ tasks[t].pc = "sleep"
                /\ tasks'[t].mon = tasks[t].mon + 1
          /\ (CycleEnds(t) /\ ~tasks'[t].threw) => tasks[t].mon = Len(Monitors)
          /\ (tasks[t].pc = "deliver" /\ CycleRunning(t)') =>
                /\ tasks'[t].results = tasks[t].results
                /\ tasks'[t].mon = tasks[t].mon
          /\ (LoopRan(t) /\ tasks'[t] # tasks[t] /\ tasks'[t].pc = "deliver") =>
                /\ tasks'[t].idx > tasks[t].idx
                /\ tasks'[t].idx <= Len(tasks'[t].results)
                /\ \A k \in PassedIn(t) :
                      \/ IsStale(tasks'[t].results[k], tasks[t].now)
                      \/ AlertReason(tasks[t].state, tasks'[t].results[k]) = "none"]_vars

\* In the third query the alert of the first record of the result has been
\* delivered and the second record waits for its own.
C28_Witness ==
    \E t \in TaskIds :
        /\ tasks[t].mon = Len(Monitors)
        /\ tasks[t].pc = "deliver"
        /\ tasks[t].idx = 2
        /\ tasks[t].results[1].id = "p2"
        /\ tasks[t].results[2].id = "p1"
        /\ delivered["p2"] = 1 /\ delivered["p1"] = 0
        /\ tasks[t].state["p2"].lastChecked = tasks[t].now

\* ===================================================================
\* A post whose likes grow by less than half from cycle to cycle
\* ===================================================================
\* The like count of the post in cycle n (0: what the state file holds): 10,
\* 14, 19, 26, 36, ..., each less than 50% above the one before.
RECURSIVE LikesAt(_)
LikesAt(n) == IF n = 0 THEN 10 ELSE LikesAt(n - 1) + (2 * LikesAt(n - 1)) \div 5

\* What a search of cycle t can return of the growing post p1, and of
\* another post.
GrowingPost(t) ==
    {Tweet("p1", LikesAt(t + 1), retweets, NoCount, createdAt) :
        retweets \in {NoCount, 2}, createdAt \in {NoTime, StartTime + t}}

OtherPost == {Tweet("p2", 8, NoCount, NoCount, NoTime)}

\* The first query of every cycle finds the growing post; the later ones
\* find it or not.
GrowthResponses(t) ==
    IF tasks[t].mon = 1
    THEN {res \in SearchResponses(GrowingPost(t) \cup OtherPost) :
             \E k \in 1..Len(res.results) : res.results[k].id = "p1"}
    ELSE SearchResponses(GrowingPost(t) \cup OtherPost)

GrowthInit ==
    /\ fetch = [pc |-> "unused"]
    /\ search = [pc |-> "unused"]
    /\ migration = [pc |-> "unused"]
    /\ alert = [pc |-> "unused"]
    /\ extraction = [pc |-> "unused"]
    /\ legacy = [pc |-> "unused"]
    /\ vips = [pc |-> "unused"]
    /\ env \in [webhook : {TRUE}, mainAccount : BOOLEAN, apiKey : BOOLEAN]
    /\ file = FlatFile([id \in {"p1"} |-> Stats(LikesAt(0), 0, 0, 0)])
    /\ tasks = [t \in TaskIds |-> BlankTask("idle")]
    /\ clock = StartTime
    /\ lastVipCheck = 0
    /\ alive = TRUE
    /\ delivered = [id \in Ids |-> 0]

NextGrowth ==
    \/ Start /\ UNCHANGED <<fetch, search, migration, alert, extraction, legacy, vips>>
    \/ \E t \in TaskIds : TickAfterJobs(t) /\ UNCHANGED <<fetch, search, migration, alert, extraction, legacy, vips>>
    \/ \E t \in TaskIds : \E res \in GrowthResponses(t) :
          SearchReturns(t, res) /\ UNCHANGED <<fetch, search, migration, alert, extraction, legacy, vips>>
    \/ \E t \in TaskIds, outcome \in PostOutcomes :
          Deliver(t, outcome) /\ UNCHANGED <<fetch, search, migration, alert, extraction, legacy, vips>>
    \/ \E t \in TaskIds : SleepDone(t) /\ UNCHANGED <<fetch, search, migration, alert, extraction, legacy, vips>>
    \/ \E t \in TaskIds : VipCheck(t) /\ UNCHANGED <<fetch, search, migration, alert, extraction, legacy, vips>>
    \/ \E t \in TaskIds : VipReturns(t, TRUE) /\ UNCHANGED <<fetch, search, migration, alert, extraction, legacy, vips>>

SpecGrowth == GrowthInit /\ [][NextGrowth]_vars

\* C29: a seen post that every cycle observes, with likes less than 50%
\* above the observation before, never raises an alert, of growth or any
\* other, however far its likes are above the first observation; the entry
\* a cycle ends with holds the likes that cycle observed.
C29_GrowthAgainstLastObservation ==
    \A t \in TaskIds :
        /\ tasks[t].pc = "deliver" =>
              /\ tasks[t].results[tasks[t].idx].id # "p1"
              /\ tasks[t].reason = "new"
        /\ "p1" \notin tasks[t].failedIds
        /\ (tasks[t].pc \in {"sleep", "polled"} /\ ~tasks[t].threw /\ tasks[t].mon >= 1) =>
              tasks[t].state["p1"].likes = LikesAt(t + 1)

\* The last cycle has observed the post with 26 likes against 19 stored; 26
\* against the 10 of the state file would be due a growth alert.
C29_Witness ==
    \E t \in TaskIds :
        /\ t = MaxTicks
        /\ tasks[t].pc = "polled" /\ tasks[t].saved
        /\ file.seenTweets["p1"].likes = LikesAt(MaxTicks + 1)
        /\ file.seenTweets["p1"].lastChecked >= StartTime + MaxTicks
        /\ GrowthDue(LikesAt(0), LikesAt(MaxTicks + 1))
        /\ delivered["p1"] = 0

\* A step in which task t loaded the state file.
Loads(t) == BeginsCycle(t) /\ tasks'[t].pc = "search"

\* C30: between the load of a cycle and its save no other cycle loads or
\* saves the state file, and a save never removes an entry the file holds
\* or replaces it by an older observation.
C30_StateOwnedByOneCycle ==
    [][\A t, u \in TaskIds :
          /\ (t # u /\ CycleRunning(t)) => (~Loads(u) /\ ~Saves(u))
          /\ (Saves(u) /\ file.shape = "flat") =>
                \A id \in DOMAIN file.seenTweets :
                   /\ id \in DOMAIN file'.seenTweets
                   /\ file'.seenTweets[id].lastChecked >= file.seenTweets[id].lastChecked]_vars

\* ===================================================================
\* Further claims on the fetcher
\* ===================================================================

\* The step is a request of the call that failed.
AttemptFails == fetch.pc = "request" /\ fetch'.failedAt # fetch.failedAt

\* C31: after a failed attempt that is followed by another attempt on the
\* same mirror, fetch waits 250 ms times the number of the attempt that just
\* failed (the first attempt has number 1); after the last attempt on a
\* mirror, before the next mirror or before failing, it does not wait.
C31_BackoffBetweenAttemptsOnly ==
    [][AttemptFails =>
          IF fetch'.pc = "request" /\ fetch'.base = fetch.base
          THEN /\ fetch'.attempt = fetch.attempt + 1
               /\ fetch.attempt < fetch.retriesPerInstance
               /\ fetch'.slept = 250 * (fetch.attempt + 1)
          ELSE /\ fetch.attempt = fetch.retriesPerInstance
               /\ fetch'.slept = 0]_vars

\* The second and the third attempt on the second mirror, 500 ms apart.
C31_Witness ==
    /\ fetch.pc = "request"
    /\ fetch.base = 2
    /\ fetch.attempt = 2
    /\ fetch.slept = 500

\* The first request to a mirror after the one before it was given up.
C31_WitnessNextMirror ==
    /\ fetch.pc = "request"
    /\ fetch.base = 2
    /\ fetch.attempt = 0
    /\ fetch.sent[1] = fetch.retriesPerInstance + 1
    /\ fetch.retriesPerInstance >= 1
    /\ fetch.slept = 0

\* The record of a call without the text of the errors it met.
WithoutErrorText(f) ==
    [f EXCEPT !.lastError = "any", !.lastTriedError = "any",
              !.error = IF @.kind = "exhausted" THEN [@ EXCEPT !.last = "any"] ELSE @]

\* What the call does when the request it is about to send throws in the
\* transport.
AfterTransportError ==
    LET here == <<fetch.base, fetch.attempt>>
        seen == [fetch EXCEPT !.sent[fetch.base] = @ + 1,
                              !.lastTried = here,
                              !.lastTriedError = "transport",
                              !.failedAt = @ \cup {here}]
    IN  OnFailure(seen, "transport")

Implausible == {"http", "small", "challenge"}

\* C32: fetch never returns a document that came from an unsuccessful
\* response status, has fewer than 100 characters or holds the
\* access-challenge marker; an attempt that receives one of these fails, and
\* the call goes on exactly as after a transport error of that attempt: it
\* retries the mirror, falls back to the next one, or fails.
C32_ImplausibleDocumentsFail ==
    /\ [](fetch.pc = "returned" =>
             /\ fetch.result.html.ok
             /\ fetch.result.html.len >= 100
             /\ ~fetch.result.html.challenge)
    /\ [][fetch.pc = "request" /\ fetch'.lastTriedError \in Implausible =>
             /\ <<fetch.base, fetch.attempt>> \in fetch'.failedAt
             /\ fetch'.okAt = fetch.okAt
             /\ fetch'.pc # "returned"
             /\ WithoutErrorText(fetch') = WithoutErrorText(AfterTransportError)]_vars

\* A challenge page on the last attempt of the first mirror, then a
\* plausible document from the second.
C32_Witness ==
    /\ fetch.pc = "returned"
    /\ fetch.base = 2
    /\ fetch.attempt = 0
    /\ fetch.lastError = "challenge"
    /\ fetch.retriesPerInstance >= 1

\* A document of fewer than 100 characters, retried on the same mirror.
C32_WitnessRetry ==
    /\ fetch.pc = "request"
    /\ fetch.base = 1
    /\ fetch.attempt = 1
    /\ fetch.lastError = "small"

\* ===================================================================
\* One cycle with its searches and their fetches
\* ===================================================================
\* processMonitor hands its options to searchNitterGlobal, which hands them
\* to fetchHtmlWithFallback for every page.  The cycle of the run at start,
\* each of its searches run page by page and each page fetched request by
\* request.
ChainLists == {l \in RawInstanceLists : Len(l) <= 1}

ChainRetries == 0..1

ChainFetch(pc, raw, n) ==
    [pc |-> pc, raw |-> raw, retriesPerInstance |-> n, instances |-> <<>>,
     base |-> 0, attempt |-> 0, lastError |-> "undefined", slept |-> 0,
     sent |-> <<>>, okAt |-> {}, failedAt |-> {}, lastTried |-> <<0, 0>>,
     lastTriedError |-> "none",
     result |-> NoResult, error |-> NoError]

ChainSearch(pc, raw) ==
    [pc |-> pc, limit |-> MaxLimit, instancesEmpty |-> cleanInstances(raw) = <<>>,
     results |-> <<>>,
     nextPath |-> FirstPath, page |-> 0, instanceUsedForLastFetch |-> "",
     response |-> [results |-> <<>>, error |-> NoSearchError, instanceUsed |-> ""],
     fetched |-> 0, failedFetches |-> 0, firstSeen |-> <<>>, repeated |-> {},
     lastMore |-> NoPath]

\* The documents a mirror serves: at most one post, with or without a
\* show-more link.
ChainPages ==
    [tweets : SeqsUpTo(1..MaxId, 1), more : {"/search?cursor=1", NoPath}]

ChainInit ==
    /\ migration = [pc |-> "unused"]
    /\ alert = [pc |-> "unused"]
    /\ extraction = [pc |-> "unused"]
    /\ legacy = [pc |-> "unused"]
    /\ vips = [pc |-> "unused"]
    /\ env = [webhook |-> TRUE, mainAccount |-> TRUE, apiKey |-> TRUE]
    /\ file = AbsentFile
    /\ tasks = [t \in TaskIds |-> BlankTask("idle")]
    /\ clock = StartTime
    /\ lastVipCheck = 0
    /\ alive = TRUE
    /\ delivered = [id \in Ids |-> 0]
    /\ \E raw \in ChainLists, n \in ChainRetries :
          /\ fetch = ChainFetch("idle", raw, n)
          /\ search = ChainSearch("idle", raw)

\* processMonitor line 155: searchNitterGlobal(monitor.query, 50, globalOpts)
\* is called and runs to its first loop test.
ChainSearchCall(t) ==
    /\ tasks[t].pc = "search"
    /\ search.pc = "idle"
    /\ search' = LoopOrReturn(ChainSearch("called", fetch.raw))
    /\ UNCHANGED <<fetch, wvars>>

\* searchNitterGlobal line 365: fetchHtmlWithFallback(nextPath, opts) is
\* called.
ChainFetchCall ==
    /\ search.pc = "fetching"
    /\ fetch.pc = "idle"
    /\ fetch' = [fetch EXCEPT !.pc = "called"]
    /\ UNCHANGED <<search, wvars>>

\* The fetch returned a document: the rest of the loop body of the search.
ChainPage(pg) ==
    /\ search.pc = "fetching"
    /\ fetch.pc = "returned"
    /\ search' = OnPage([search EXCEPT !.fetched = @ + 1,
                                       !.firstSeen = FirstSeen(@, pg.tweets),
                                       !.repeated = @ \cup Repeated(search.firstSeen, pg.tweets),
                                       !.lastMore = pg.more],
                        [tweets |-> pg.tweets, more |-> pg.more,
                         instanceUsed |-> fetch.result.instanceUsed])
    /\ fetch' = ChainFetch("idle", fetch.raw, fetch.retriesPerInstance)
    /\ UNCHANGED wvars

\* The fetch threw: the catch of the search.
ChainFetchFails ==
    /\ search.pc = "fetching"
    /\ fetch.pc = "threw"
    /\ search' = OnFetchError([search EXCEPT !.fetched = @ + 1, !.failedFetches = @ + 1],
                              fetch.error.kind)
    /\ fetch' = ChainFetch("idle", fetch.raw, fetch.retriesPerInstance)
    /\ UNCHANGED wvars

\* The records of a response as processMonitor reads them.
ChainResults(ids) == [i \in 1..Len(ids) |-> Tweet(PostIds[ids[i]], 8, NoCount, NoCount, NoTime)]

\* The search returned its response to processMonitor.
ChainSearchReturns(t) ==
    /\ search.pc = "returned"
    /\ SearchReturns(t, [error |-> search.response.error # NoSearchError,
                         results |-> ChainResults(search.response.results)])
    /\ search' = ChainSearch("idle", fetch.raw)
    /\ UNCHANGED <<fetch, migration, alert, extraction, legacy, vips>>

ChainNext ==
    \/ Start /\ UNCHANGED <<fetch, search, migration, alert, extraction, legacy, vips>>
    \/ \E t \in TaskIds : ChainSearchCall(t)
    \/ ChainFetchCall
    \/ FetchCall /\ UNCHANGED <<search, wvars>>
    \/ \E resp \in Responses : FetchAttempt(resp) /\ UNCHANGED <<search, wvars>>
    \/ \E pg \in ChainPages : ChainPage(pg)
    \/ ChainFetchFails
    \/ \E t \in TaskIds : ChainSearchReturns(t)
    \/ \E t \in TaskIds, outcome \in PostOutcomes :
          Deliver(t, outcome) /\ UNCHANGED <<fetch, search, migration, alert, extraction, legacy, vips>>
    \/ \E t \in TaskIds : SleepDone(t) /\ UNCHANGED <<fetch, search, migration, alert, extraction, legacy, vips>>

SpecChain == ChainInit /\ [][ChainNext]_vars

NoMirrors == cleanInstances(fetch.raw) = <<>>

\* C33: when the mirror list is empty after trimming the entries and
\* dropping the blank ones, fetch fails with a configuration error and has
\* sent no request; the search that called it returns zero records and an
\* error string; the query that called the search is skipped, and the cycle
\* goes on through its remaining queries to its end.
C33_NoMirrorsSkipsTheQuery ==
    NoMirrors =>
       /\ fetch.pc \notin {"idle", "called"} =>
             /\ fetch.pc = "threw"
             /\ fetch.error.kind = "config"
             /\ fetch.sent = <<>> /\ fetch.okAt = {} /\ fetch.failedAt = {}
       /\ search.pc = "returned" =>
             /\ search.response.results = <<>>
             /\ search.response.error = [count |-> 0, msg |-> "config"]
       /\ \A t \in TaskIds :
             /\ ~tasks[t].threw
             /\ tasks[t].state = EmptyMap
             /\ tasks[t].pc = "search" => tasks[t].erredMons = 1..(tasks[t].mon - 1)
             /\ tasks[t].pc = "sleep" => tasks[t].erredMons = 1..tasks[t].mon
             /\ tasks[t].pc \notin {"idle", "search", "sleep"} =>
                   /\ tasks[t].pc = "polled"
                   /\ tasks[t].erredMons = 1..Len(Monitors)
                   /\ tasks[t].saved
       /\ \A id \in Ids : delivered[id] = 0

\* A list of blank entries only, and the cycle at its end.
C33_Witness ==
    /\ NoMirrors
    /\ fetch.raw # <<>>
    /\ tasks[0].pc = "polled"
    /\ tasks[0].erredMons = 1..Len(Monitors)
    /\ tasks[0].saved

\* The configuration error as the fetch raises it.
C33_WitnessFetch ==
    /\ NoMirrors
    /\ fetch.pc = "threw"
    /\ fetch.error.kind = "config"
    /\ tasks[0].mon = 2

\* ===================================================================
\* Record extraction: extractTweetsFromHtml
\* ===================================================================
MaxElems == 2       \* most .timeline-item elements in a document

ID_PREFIX_LEN == 32

Http == <<"h", "t", "t", "p">>

StartsWith(s, p) == Len(s) >= Len(p) /\ SubSeq(s, 1, Len(p)) = p

\* url.split("/").pop(): what follows the last slash, the whole string when
\* it has none.
LastSlash(s) ==
    IF \E i \in 1..Len(s) : s[i] = "/"
    THEN CHOOSE i \in 1..Len(s) : s[i] = "/" /\ \A j \in (i + 1)..Len(s) : s[j] # "/"
    ELSE 0

SplitPop(s) == SubSeq(s, LastSlash(s) + 1, Len(s))

\* text.slice(0, n)
Slice(s, n) == SubSeq(s, 1, IF Len(s) < n THEN Len(s) ELSE n)

\* The text of the .tweet-content element of a timeline item (the empty
\* string when the item has none), and the href of its .tweet-date link.
LongText == [i \in 1..(ID_PREFIX_LEN + 3) |-> IF i = 5 THEN " " ELSE "x"]

Texts ==
    { <<>>, <<" ">>, <<" ", " ">>, <<"a">>, <<" ", "a", "/", "b", " ">>, LongText,
      <<" ">> \o LongText }

Hrefs ==
    { <<>>, <<" ">>, <<"/">>, <<"7">>, <<"/", "u", "/", "7">>, <<"/", "u", "/", "7", "/">>,
      Http \o <<":", "/", "/", "m", "/", "u", "/", "7">>,
      Http \o <<":", "/", "/", "m", "/", "u", "/", "7", "/">> }

Links == {[present |-> FALSE, href |-> <<>>]} \cup [present : {TRUE}, href : Hrefs]

Elements == [text : Texts, link : Links]

Documents == SeqsUpTo(Elements, MaxElems)

\* The base addresses cleanInstances can hand on as instanceUsed.
Bases == {<<"b">>, <<>>}

\* const url = href ? (href.startsWith("http") ? href : base + "/" + href) : ""
TweetUrl(href, baseUsed) ==
    IF href = <<>> THEN <<>>
    ELSE IF StartsWith(href, Http) THEN href
    ELSE baseUsed \o (IF StartsWith(href, <<"/">>) THEN <<>> ELSE <<"/">>) \o href

\* const id = url ? url.split("/").pop() || url : text.slice(0, 32)
TweetIdNoUrlFallback(url, text) ==
    IF url # <<>> THEN SplitPop(url) ELSE Slice(text, ID_PREFIX_LEN)

TweetId(url, text) ==
    IF url # <<>>
    THEN IF SplitPop(url) # <<>> THEN SplitPop(url) ELSE url
    ELSE Slice(text, ID_PREFIX_LEN)

\* The body of the each() callback for element number n; el records the
\* element a record was made from.
ExtractElement(tweets, elem, n, baseUsed) ==
    LET text == Trim(elem.text)
        href == IF elem.link.present THEN elem.link.href ELSE <<>>
        url  == TweetUrl(href, baseUsed)
    IN  IF text = <<>> THEN tweets
        ELSE Append(tweets, [id |-> TweetId(url, text), url |-> url, text |-> text, el |-> n])

RECURSIVE ExtractFrom(_, _, _, _)
ExtractFrom(tweets, html, n, baseUsed) ==
    IF n > Len(html) THEN tweets
    ELSE ExtractFrom(ExtractElement(tweets, html[n], n, baseUsed), html, n + 1, baseUsed)

extractTweetsFromHtml(html, baseUsed) == ExtractFrom(<<>>, html, 1, baseUsed)

ExtractInit ==
    /\ fetch = [pc |-> "unused"]
    /\ search = [pc |-> "unused"]
    /\ migration = [pc |-> "unused"]
    /\ alert = [pc |-> "unused"]
    /\ legacy = [pc |-> "unused"]
    /\ vips = [pc |-> "unused"]
    /\ env = [pc |-> "unused"]
    /\ file = [pc |-> "unused"]
    /\ tasks = <<>>
    /\ clock = 0
    /\ lastVipCheck = 0
    /\ alive = FALSE
    /\ delivered = <<>>
    /\ extraction \in [pc : {"fetched"}, html : Documents, baseUsed : Bases, tweets : {<<>>}]

Extract ==
    /\ extraction.pc = "fetched"
    /\ extraction' = [extraction EXCEPT
                         !.pc = "extracted",
                         !.tweets = extractTweetsFromHtml(extraction.html, extraction.baseUsed)]
    /\ UNCHANGED <<fetch, search, env, file, tasks, clock, lastVipCheck, alive, delivered,
                   migration, alert, legacy, vips>>

ExtractNext == Extract

SpecExtract == ExtractInit /\ [][ExtractNext]_vars

HasBodyText(elem) == \E i \in 1..Len(elem.text) : elem.text[i] # " "

HasPermalink(elem) == elem.link.present /\ elem.link.href # <<>>

EndsWithSlash(s) == s # <<>> /\ s[Len(s)] = "/"

\* id is what follows the last slash of url.
IsTrailingSegment(id, url) ==
    /\ \A i \in 1..Len(id) : id[i] # "/"
    /\ \E k \in 1..Len(url) : url[k] = "/" /\ id = SubSeq(url, k + 1, Len(url))

IsBodyPrefix(id, text) ==
    /\ Len(id) <= 32
    /\ Len(id) <= Len(text)
    /\ id = SubSeq(text, 1, Len(id))
    /\ Len(id) < 32 => id = text

\* Every record has a body and an identifier, and the records are those of
\* the elements with body text, in document order.
RecordsOfElementsWithBody ==
    LET tweets == extraction.tweets
        html   == extraction.html
    IN  /\ \A i \in 1..Len(tweets) :
              /\ tweets[i].text # <<>>
              /\ tweets[i].id # <<>>
              /\ tweets[i].el \in 1..Len(html)
              /\ HasBodyText(html[tweets[i].el])
        /\ \A i, j \in 1..Len(tweets) : i < j => tweets[i].el < tweets[j].el
        /\ \A n \in 1..Len(html) :
              HasBodyText(html[n]) => \E i \in 1..Len(tweets) : tweets[i].el = n

\* C34 as the claim states it: every record produced by extractPosts has a
\* non-empty body and a non-empty identifier; elements without body text are
\* skipped without error; the identifier is the trailing path segment of the
\* permalink when the element has one, and otherwise a prefix of at most 32
\* characters of the body.
C34_IdFromPermalinkOrBody ==
    extraction.pc = "extracted" =>
       /\ RecordsOfElementsWithBody
       /\ \A i \in 1..Len(extraction.tweets) :
             LET tw == extraction.tweets[i] IN
             IF HasPermalink(extraction.html[tw.el])
             THEN IsTrailingSegment(tw.id, tw.url)
             ELSE IsBodyPrefix(tw.id, tw.text)

\* C34, amended: every record produced by extractPosts has a non-empty body
\* and a non-empty identifier; elements without body text are skipped
\* without error; the identifier is the trailing path segment of the
\* permalink when the element has one that does not end in a slash, the
\* whole address of the permalink when it ends in a slash, and otherwise a
\* prefix of at most 32 characters of the body.
C34_IdFromPermalinkAddressOrBody ==
    extraction.pc = "extracted" =>
       /\ RecordsOfElementsWithBody
       /\ \A i \in 1..Len(extraction.tweets) :
             LET tw == extraction.tweets[i] IN
             IF HasPermalink(extraction.html[tw.el])
             THEN IF EndsWithSlash(tw.url) THEN tw.id = tw.url
                  ELSE IsTrailingSegment(tw.id, tw.url)
             ELSE IsBodyPrefix(tw.id, tw.text)

\* A document with an element without body text, skipped, and an element
\* whose permalink ends in a slash.
C34_Witness ==
    /\ extraction.pc = "extracted"
    /\ Len(extraction.html) = 2
    /\ ~HasBodyText(extraction.html[1])
    /\ Len(extraction.tweets) = 1
    /\ EndsWithSlash(extraction.tweets[1].url)
    /\ extraction.tweets[1].id = extraction.tweets[1].url

\* A body longer than 32 characters without a permalink.
C34_WitnessPrefix ==
    /\ extraction.pc = "extracted"
    /\ Len(extraction.tweets) = 1
    /\ extraction.tweets[1].url = <<>>
    /\ Len(extraction.tweets[1].id) = 32
    /\ Len(extraction.tweets[1].text) > 32

\* ===================================================================
\* One post seen by several queries of a cycle
\* ===================================================================
\* The first cycle of the worker, on any state file the worker or an earlier
\* version left behind; none of them has an entry for SharedPost.  The
\* queries return SharedPost with the same like count every time, fresh or
\* older than three days, and another post besides.  Here alert counts what
\* the cycle was handed of SharedPost and what it posted about it.
SharedPost == PostIds[2]

NotReturned == 0 - 2

SharedTweets ==
    {Tweet(SharedPost, likes, NoCount, NoCount, createdAt) :
        likes \in {NoCount, 0, 3, 8}, createdAt \in {NoTime, 0, StartTime}}
    \cup {Tweet(PostIds[1], likes, NoCount, NoCount, NoTime) : likes \in {NoCount, 8}}

SharedIn(results) == {i \in 1..Len(results) : results[i].id = SharedPost}

SharedInit ==
    /\ fetch = [pc |-> "unused"]
    /\ search = [pc |-> "unused"]
    /\ migration = [pc |-> "unused"]
    /\ extraction = [pc |-> "unused"]
    /\ legacy = [pc |-> "unused"]
    /\ vips = [pc |-> "unused"]
    /\ env = [webhook |-> TRUE, mainAccount |-> TRUE, apiKey |-> TRUE]
    /\ file \in StateFiles
    /\ tasks = [t \in TaskIds |-> BlankTask("idle")]
    /\ clock = StartTime
    /\ lastVipCheck = 0
    /\ alive = TRUE
    /\ delivered = [id \in Ids |-> 0]
    /\ alert = [pc |-> "cycle", returns |-> 0, fresh |-> 0, likes |-> NotReturned,
                posted |-> 0, reasons |-> {}]

\* await searchNitterGlobal(...) returns, with SharedPost at the like count
\* it had before in this cycle.
SharedSearchReturns(t, res) ==
    /\ \A i \in SharedIn(res.results) :
          alert.likes # NotReturned => res.results[i].likes = alert.likes
    /\ SearchReturns(t, res)
    /\ alert' =
          IF SharedIn(res.results) = {} THEN alert
          ELSE LET tweet == res.results[CHOOSE i \in SharedIn(res.results) : TRUE]
               IN  [alert EXCEPT !.returns = @ + 1,
                                 !.fresh = IF IsStale(tweet, tasks[t].now) THEN @ ELSE @ + 1,
                                 !.likes = tweet.likes]
    /\ UNCHANGED <<fetch, search, migration, extraction, legacy, vips>>

\* await postToDiscord(...) is over.
SharedDeliver(t, outcome) ==
    /\ Deliver(t, outcome)
    /\ alert' =
          IF tasks[t].results[tasks[t].idx].id = SharedPost
          THEN [alert EXCEPT !.posted = @ + 1, !.reasons = @ \cup {tasks[t].reason}]
          ELSE alert
    /\ UNCHANGED <<fetch, search, migration, extraction, legacy, vips>>

NextShared ==
    \/ Start /\ UNCHANGED <<fetch, search, migration, alert, extraction, legacy, vips>>
    \/ \E t \in TaskIds, res \in SearchResponses(SharedTweets) : SharedSearchReturns(t, res)
    \/ \E t \in TaskIds, outcome \in PostOutcomes : SharedDeliver(t, outcome)
    \/ \E t \in TaskIds : SleepDone(t) /\ UNCHANGED <<fetch, search, migration, alert, extraction, legacy, vips>>

SpecShared == SharedInit /\ [][NextShared]_vars

\* The alerts of the cycle about SharedPost: those posted and the one being
\* posted.
SharedAlerts ==
    alert.posted +
    (IF /\ tasks[0].pc = "deliver"
        /\ tasks[0].results[tasks[0].idx].id = SharedPost
     THEN 1 ELSE 0)

BetweenQueries == tasks[0].pc \in {"sleep", "polled"}

C36_EntriesNeverRemoved ==
    [][/\ FileIds(file) \subseteq FileIds(file')
       /\ \A t \in TaskIds :
             /\ Loads(t) => FileIds(file) \subseteq DOMAIN tasks'[t].state
             /\ (CycleRunning(t) /\ tasks'[t].pc \in {"search", "deliver", "sleep"}) =>
                   DOMAIN tasks[t].state \subseteq DOMAIN tasks'[t].state
             /\ Saves(t) => DOMAIN tasks[t].state \subseteq FileIds(file')]_vars

\* ===================================================================
\* The earlier worker: seen lists per monitor
\* ===================================================================
\* The worker before the engagement map kept, per monitor key, the list of
\* the identifiers it had notified; its postToDiscord threw on a transport
\* error and on a non-2xx answer.  Its run() is the run() of the later
\* worker.  Times are counted in timer periods, the age ceiling of one day
\* scaled to one of them.
ONE_DAY_MS == 1
SEEN_LIMIT == 5000

LegacyKeys == Range(Monitors)

NoLists == [k \in {} |-> <<>>]

\* .state.json as this worker and the one before it wrote it.
LegacyFiles ==
    { [shape |-> "absent", lastIds |-> NoLists, seenIds |-> <<>>],
      [shape |-> "lastIds", lastIds |-> [k \in {"default"} |-> <<"p1">>], seenIds |-> <<>>],
      [shape |-> "seenIds", lastIds |-> NoLists, seenIds |-> <<"p1">>] }

\* loadState: the lists of the file, the single list of the first format
\* under the key "default".
LegacyLoad(f) ==
    IF f.shape = "seenIds" THEN [k \in {"default"} |-> f.seenIds]
    ELSE f.lastIds

LegacySave(lists) == [shape |-> "lastIds", lastIds |-> lists, seenIds |-> <<>>]

\* if (!state.lastIds[monitor.key]) state.lastIds[monitor.key] = [];
EnsureKey(lists, key) ==
    IF key \in DOMAIN lists THEN lists
    ELSE [k \in DOMAIN lists \cup {key} |-> IF k = key THEN <<>> ELSE lists[k]]

\* The records the searches return: one post when cycles overlap, every post
\* when they run in turn.
\* The first post states no time, the second was written when the process
\* started, the others two periods before.
LegacyCreatedAt(id) ==
    IF id = PostIds[1] THEN NoTime
    ELSE IF id = PostIds[2] THEN StartTime
    ELSE StartTime - 2

LegacyTweets(ids) == {[id |-> id, createdAt |-> LegacyCreatedAt(id)] : id \in ids}

LegacyResponses(ids) ==
    {[error |-> TRUE, results |-> <<>>]}
    \cup {[error |-> FALSE, results |-> r] : r \in ResultsUpTo(LegacyTweets(ids), MaxResults)}

TooOld(tweet, now) == tweet.createdAt # NoTime /\ now - tweet.createdAt > ONE_DAY_MS

RECURSIVE Unseen(_, _)
Unseen(results, seenIds) ==
    IF results = <<>> THEN <<>>
    ELSE IF Head(results).id \in Range(seenIds) THEN Unseen(Tail(results), seenIds)
    ELSE <<Head(results)>> \o Unseen(Tail(results), seenIds)

\* The freshness filter: the records it keeps, and the list after it has
\* pushed the identifiers of those it drops.
RECURSIVE FreshOf(_, _)
FreshOf(unseen, now) ==
    IF unseen = <<>> THEN <<>>
    ELSE IF TooOld(Head(unseen), now) THEN FreshOf(Tail(unseen), now)
    ELSE <<Head(unseen)>> \o FreshOf(Tail(unseen), now)

RECURSIVE PushOld(_, _, _)
PushOld(seenIds, unseen, now) ==
    IF unseen = <<>> THEN seenIds
    ELSE PushOld(IF TooOld(Head(unseen), now) THEN Append(seenIds, Head(unseen).id) ELSE seenIds,
                 Tail(unseen), now)

\* if (seenIds.length > 5000) state.lastIds[monitor.key] = seenIds.slice(-5000)
TrimSeen(seenIds) ==
    IF Len(seenIds) > SEEN_LIMIT
    THEN SubSeq(seenIds, Len(seenIds) - SEEN_LIMIT + 1, Len(seenIds))
    ELSE seenIds

LegacyIdle ==
    [pc |-> "idle", mon |-> 0, lists |-> NoLists, results |-> <<>>, queue |-> <<>>,
     idx |-> 0, posted |-> "none"]

LegacyInit ==
    /\ fetch = [pc |-> "unused"]
    /\ search = [pc |-> "unused"]
    /\ migration = [pc |-> "unused"]
    /\ alert = [pc |-> "unused"]
    /\ extraction = [pc |-> "unused"]
    /\ vips = [pc |-> "unused"]
    /\ env = [pc |-> "unused"]
    /\ file = [pc |-> "unused"]
    /\ tasks = <<>>
    /\ clock = 0
    /\ lastVipCheck = 0
    /\ alive = FALSE
    /\ delivered = <<>>
    /\ legacy \in [pc : {"running"}, file : LegacyFiles, now : {StartTime},
                   cycles : {[c \in TaskIds |-> LegacyIdle]}]

LegacyOthers ==
    <<fetch, search, env, file, tasks, clock, lastVipCheck, alive, delivered, migration, alert,
      extraction, vips>>

LegacyKey(c) == Monitors[legacy.cycles[c].mon]

\* The timer fires (for c = 0, run() calls doPoll): runMonitors loads the
\* state and enters processMonitor for the first monitor, up to its await.
LegacyBegin(c) ==
    /\ legacy.cycles[c].pc = "idle"
    /\ \A u \in 0..(c - 1) : legacy.cycles[u].pc # "idle"
    /\ c >= 1 => legacy.cycles[0].pc = "done"
    /\ legacy' = [legacy EXCEPT
                     !.now = IF c = 0 THEN @ ELSE @ + 1,
                     !.cycles[c] = [LegacyIdle EXCEPT
                                       !.pc = "search", !.mon = 1,
                                       !.lists = EnsureKey(LegacyLoad(legacy.file), Monitors[1])]]
    /\ UNCHANGED LegacyOthers

\* The same, the timer waiting for the cycles before.
LegacyBeginAfter(c) ==
    /\ \A u \in 0..(c - 1) : legacy.cycles[u].pc = "done"
    /\ LegacyBegin(c)

\* await searchNitterGlobal(...) returns: the two filters, and the first post
\* or the end of processMonitor.
LegacySearchReturns(c, res) ==
    /\ legacy.cycles[c].pc = "search"
    /\ LET cy     == legacy.cycles[c]
           key    == LegacyKey(c)
           unseen == Unseen(res.results, cy.lists[key])
           fresh  == FreshOf(unseen, legacy.now)
           pushed == PushOld(cy.lists[key], unseen, legacy.now)
       IN  legacy' = [legacy EXCEPT !.cycles[c] =
              IF res.error THEN [cy EXCEPT !.pc = "sleep", !.results = <<>>, !.posted = "none"]
              ELSE IF fresh = <<>>
              THEN [cy EXCEPT !.pc = "sleep", !.results = res.results, !.posted = "none",
                              !.lists[key] = TrimSeen(pushed)]
              ELSE [cy EXCEPT !.pc = "post", !.results = res.results, !.posted = "none",
                              !.lists[key] = pushed, !.queue = fresh, !.idx = 1]]
    /\ UNCHANGED LegacyOthers

\* try { await postToDiscord(...); seenIds.push(tweet.id) } catch { log }
OnPosted(seenIds, id, outcome) == IF outcome = "ok" THEN Append(seenIds, id) ELSE seenIds

LegacyPost(c, outcome) ==
    /\ legacy.cycles[c].pc = "post"
    /\ LET cy   == legacy.cycles[c]
           key  == LegacyKey(c)
           id   == cy.queue[cy.idx].id
           seen == OnPosted(cy.lists[key], id, outcome)
       IN  legacy' = [legacy EXCEPT !.cycles[c] =
              IF cy.idx < Len(cy.queue)
              THEN [cy EXCEPT !.lists[key] = seen, !.idx = @ + 1, !.posted = outcome]
              ELSE [cy EXCEPT !.lists[key] = TrimSeen(seen), !.pc = "sleep", !.posted = outcome]]
    /\ UNCHANGED LegacyOthers

\* The two-second sleep is over: the next monitor, or saveState(state).
LegacySleepDone(c) ==
    /\ legacy.cycles[c].pc = "sleep"
    /\ LET cy == legacy.cycles[c] IN
       IF cy.mon < Len(Monitors)
       THEN legacy' = [legacy EXCEPT !.cycles[c] =
                          [cy EXCEPT !.pc = "search", !.mon = @ + 1,
                                     !.lists = EnsureKey(@, Monitors[cy.mon + 1]),
                                     !.results = <<>>, !.queue = <<>>, !.idx = 0,
                                     !.posted = "none"]]
       ELSE legacy' = [legacy EXCEPT !.file = LegacySave(cy.lists),
                                     !.cycles[c] = [LegacyIdle EXCEPT !.pc = "done"]]
    /\ UNCHANGED LegacyOthers

NextLegacy ==
    \/ \E c \in TaskIds : LegacyBegin(c)
    \/ \E c \in TaskIds, res \in LegacyResponses({PostIds[1]}) : LegacySearchReturns(c, res)
    \/ \E c \in TaskIds, outcome \in PostOutcomes : LegacyPost(c, outcome)
    \/ \E c \in TaskIds : LegacySleepDone(c)

SpecLegacy == LegacyInit /\ [][NextLegacy]_vars

NextLegacyInTurn ==
    \/ \E c \in TaskIds : LegacyBeginAfter(c)
    \/ \E c \in TaskIds, res \in LegacyResponses(Ids) : LegacySearchReturns(c, res)
    \/ \E c \in TaskIds, outcome \in PostOutcomes : LegacyPost(c, outcome)
    \/ \E c \in TaskIds : LegacySleepDone(c)

SpecLegacyInTurn == LegacyInit /\ [][NextLegacyInTurn]_vars

\* Every copy of the seen list of a monitor key: the one in the file and the
\* ones the cycles hold.
SeenAnywhere(key) ==
    (IF key \in DOMAIN LegacyLoad(legacy.file) THEN Range(LegacyLoad(legacy.file)[key]) ELSE {})
    \cup UNION {IF key \in DOMAIN legacy.cycles[c].lists
                THEN Range(legacy.cycles[c].lists[key]) ELSE {} : c \in TaskIds}

SeenBy(cy, key) == IF key \in DOMAIN cy.lists THEN Range(cy.lists[key]) ELSE {}

\* A step in which the await of postToDiscord of cycle c came to its end.
LegacyPosts(c) == legacy.cycles[c].pc = "post" /\ legacy'.cycles[c] # legacy.cycles[c]

\* A step in which the search of cycle c returned records.
LegacyFilters(c) ==
    /\ legacy.cycles[c].pc = "search"
    /\ legacy'.cycles[c].pc \in {"post", "sleep"}
    /\ legacy'.cycles[c].results # <<>>

\* C37: in the earlier worker an unseen fresh post is added to the seen list
\* of its query only after its notification was delivered successfully, and
\* a post older than 24 hours is added without being delivered; a post
\* whose delivery failed stays unseen and is delivered again in the next
\* cycle that returns it; and no post in the seen list of a query is ever
\* delivered again for that query.
C37_SeenOnlyAfterDelivery ==
    [][\A c \in TaskIds :
          LET cy  == legacy.cycles[c]
              cy2 == legacy'.cycles[c]
              key == LegacyKey(c)
          IN  /\ LegacyPosts(c) =>
                    LET id == cy.queue[cy.idx].id IN
                    /\ id \notin SeenAnywhere(key)
                    /\ SeenBy(cy2, key) =
                          SeenBy(cy, key) \cup (IF cy2.posted = "ok" THEN {id} ELSE {})
              /\ LegacyFilters(c) =>
                    \A i \in 1..Len(cy2.results) :
                       LET tw == cy2.results[i] IN
                       IF tw.id \in SeenBy(cy, key)
                       THEN \A j \in 1..Len(cy2.queue) : cy2.queue[j].id # tw.id
                       ELSE IF TooOld(tw, legacy.now)
                       THEN /\ tw.id \in SeenBy(cy2, key)
                            /\ \A j \in 1..Len(cy2.queue) : cy2.queue[j].id # tw.id
                       ELSE /\ tw.id \notin SeenBy(cy2, key)
                            /\ cy2.pc = "post"
                            /\ \E j \in 1..Len(cy2.queue) : cy2.queue[j] = tw]_vars

\* ===================================================================
\* The relationship tracker: checkVips (vipTracker main)
\* ===================================================================
MaxVips == 2        \* entries of the VIP list
MaxChecks == 3      \* relationship checks in a run of the process

VipNames == <<"v1", "v2", "v3", "v4">>

\* loadVips: the handles of the list, in its order.
VipList == [i \in 1..MaxVips |-> VipNames[i]]

\* The first VIP follows the main account the whole time and the account is
\* on the first page of the VIP's followings; the others may follow or not,
\* from one check to the next.
Steady == VipNames[1]

\* What fetchTwitterApi("/user/followings") does in a lookup for a VIP: it
\* answers with a page that lists the main account, or with one that does
\* not, or it throws.
Lookups(handle) ==
    IF handle = Steady THEN {"listed", "throws"} ELSE {"listed", "notListed", "throws"}

\* checkFollows: true when the page lists the target; the catch logs the
\* error of the request and the function returns false.
checkFollows(lookup) == lookup = "listed"

VipIdle(following, checks, reported) ==
    [pc |-> "idle", file |-> following, checks |-> checks, reported |-> reported,
     known |-> {}, idx |-> 0, currentFollowingHandles |-> <<>>, newFollowers |-> <<>>,
     threw |-> {}]

TrackerInit ==
    /\ fetch = [pc |-> "unused"]
    /\ search = [pc |-> "unused"]
    /\ migration = [pc |-> "unused"]
    /\ alert = [pc |-> "unused"]
    /\ extraction = [pc |-> "unused"]
    /\ legacy = [pc |-> "unused"]
    /\ env = [pc |-> "unused"]
    /\ file = [pc |-> "unused"]
    /\ tasks = <<>>
    /\ clock = 0
    /\ lastVipCheck = 0
    /\ alive = FALSE
    /\ delivered = <<>>
    /\ vips \in {VipIdle(<<>>, 0, [h \in Range(VipList) |-> 0]),
                 VipIdle(<<VipNames[2]>>, 0, [h \in Range(VipList) |-> 0])}

TrackerOthers ==
    <<fetch, search, env, file, tasks, clock, lastVipCheck, alive, delivered, migration, alert,
      extraction, legacy>>

\* main up to the loop: loadVips, loadState (no file: followingHandles []).
CheckBegins ==
    /\ vips.pc = "idle"
    /\ vips.checks < MaxChecks
    /\ vips' = [vips EXCEPT !.pc = "checking", !.known = Range(vips.file), !.idx = 1,
                            !.currentFollowingHandles = <<>>, !.newFollowers = <<>>]
    /\ UNCHANGED TrackerOthers

\* One iteration of the loop over the VIPs; after the last one, saveState
\* with the handles found following in this check, and the report.
LookupReturns(lookup) ==
    /\ vips.pc = "checking"
    /\ lookup \in Lookups(VipList[vips.idx])
    /\ LET handle  == VipList[vips.idx]
           follows == checkFollows(lookup)
           isNew   == follows /\ handle \notin vips.known
           current == IF follows THEN Append(vips.currentFollowingHandles, handle)
                      ELSE vips.currentFollowingHandles
           after   == [vips EXCEPT
                          !.currentFollowingHandles = current,
                          !.newFollowers = IF isNew THEN Append(@, handle) ELSE @,
                          !.reported[handle] = IF isNew THEN @ + 1 ELSE @,
                          !.threw = IF lookup = "throws" THEN @ \cup {handle} ELSE @]
       IN  vips' = IF vips.idx < Len(VipList)
                   THEN [after EXCEPT !.idx = @ + 1]
                   ELSE [after EXCEPT !.pc = "idle", !.file = current, !.checks = @ + 1,
                                      !.idx = 0]
    /\ UNCHANGED TrackerOthers

TrackerNext ==
    \/ CheckBegins
    \/ \E lookup \in {"listed", "notListed", "throws"} : LookupReturns(lookup)

SpecTracker == TrackerInit /\ [][TrackerNext]_vars

\* C38: across successive relationship checks, a VIP who follows the main
\* account the whole time is reported as a new follower at most once: a
\* check in which the lookup for that VIP fails does not make a later check
\* report the VIP as new again.
C38_SteadyFollowerReportedOnce ==
    /\ vips.reported[Steady] <= 1
    /\ [][(vips.pc = "checking" /\ VipList[vips.idx] = Steady /\ Steady \in vips.threw) =>
             (vips'.reported[Steady] > vips.reported[Steady] => vips.reported[Steady] = 0)]_vars

====
